---------------------------- MODULE Spec2Model ----------------------------
(***************************************************************************)
(* State-machine model of the browser-side reconciliation engine, class    *)
(* BankReconciliation (src/unnamed/part_002): the automatic matcher, the   *)
(* manual / multi / custom match handlers, the smart-match assistant, its  *)
(* learning store in localStorage and unmatchTransaction.                  *)
(*                                                                         *)
(* Conventions.                                                            *)
(*   - Money is an integer number of cents.                                *)
(*   - Scores are integers in units of 1/10000 (ScoreUnit = 1.0).          *)
(*   - JavaScript strings that the code inspects are sequences of one-     *)
(*     character strings, so that replace / includes / toLowerCase are     *)
(*     computed and not assumed.                                           *)
(*   - Array indices kept in the state (manualMatchSource.idx,             *)
(*     targetIndex, selectedMatches) are the 0-based JavaScript indices.   *)
(*   - A read past the end of an array yields Undefined, as in JavaScript. *)
(***************************************************************************)
EXTENDS Integers, Sequences, FiniteSets, TLC

VARIABLES
    bankData,               \* this.bankData
    glData,                 \* this.glData
    settings,               \* this.settings
    matchedTransactions,    \* this.matchedTransactions
    unmatchedBank,          \* this.unmatchedBank
    unmatchedGL,            \* this.unmatchedGL
    manualMatchSource,      \* this.manualMatchSource
    selectedMatches,        \* this.selectedMatches (the set of the entries' idx)
    domCandidates,          \* rendered checkboxes input[name=manualMatch]
    smartMatchSuggestions,  \* this.smartMatchSuggestions
    smartTimers,            \* pending setTimeout callbacks of generateSmartMatchSuggestions
    localStorage,           \* localStorage['bankRecSmartMatchLearning']
    now,                    \* the clock behind new Date(): one tick per handler run
    outcome,                \* how the last handler ended
    lastRun,                \* history: the latest automatic run on the current inputs
    call,                   \* the latest call of a parser or scoring helper and its value
    smartRequests,          \* history: manualMatchSource as it was when each pending
                            \* timer was set, the oldest first
    savedReconciliation     \* the reconciliation document the server holds

vars == <<bankData, glData, settings, matchedTransactions, unmatchedBank,
          unmatchedGL, manualMatchSource, selectedMatches, domCandidates,
          smartMatchSuggestions, smartTimers, localStorage, now, outcome,
          lastRun, call, smartRequests, savedReconciliation>>

-----------------------------------------------------------------------------
(* Bounds of the model *)

\* handler invocations and timer callbacks per session
MaxTime == 10
\* handler invocations and timer callbacks of a session that starts from a full log
PersistedTime == 8
\* setTimeout callbacks of generateSmartMatchSuggestions pending at once
MaxTimers == 1
\* custom entries (createCustomMatch) alive in the three lists at once
MaxCustom == 1
\* Undefined values (reads past the end of an array) held in the three lists at once
MaxUndefined == 1

-----------------------------------------------------------------------------
(* Strings *)

DigitChars == {"0", "1", "2", "3", "4", "5", "6", "7", "8", "9"}

LowerChars == {"a", "b", "c", "d", "e", "f", "g", "h", "i", "j", "k", "l", "m",
               "n", "o", "p", "q", "r", "s", "t", "u", "v", "w", "x", "y", "z"}

UpperSeq == <<"A", "B", "C", "D", "E", "F", "G", "H", "I", "J", "K", "L", "M",
             "N", "O", "P", "Q", "R", "S", "T", "U", "V", "W", "X", "Y", "Z">>

LowerSeq == <<"a", "b", "c", "d", "e", "f", "g", "h", "i", "j", "k", "l", "m",
             "n", "o", "p", "q", "r", "s", "t", "u", "v", "w", "x", "y", "z">>

\* String.prototype.toLowerCase on one character
toLowerChar(c) ==
    IF \E k \in 1..26 : UpperSeq[k] = c
    THEN LowerSeq[CHOOSE k \in 1..26 : UpperSeq[k] = c]
    ELSE c

toLowerCase(s) == [i \in 1..Len(s) |-> toLowerChar(s[i])]

\* s.replace(/\D/g, '')
stripNonDigits(s) == SelectSeq(s, LAMBDA c : c \in DigitChars)

\* hay.includes(needle)
includes(hay, needle) ==
    \E i \in 0..(Len(hay) - Len(needle)) : SubSeq(hay, i + 1, i + Len(needle)) = needle

RECURSIVE trimLeft(_)
trimLeft(s) == IF s # <<>> /\ Head(s) = " " THEN trimLeft(Tail(s)) ELSE s

RECURSIVE trimRight(_)
trimRight(s) ==
    IF s # <<>> /\ s[Len(s)] = " " THEN trimRight(SubSeq(s, 1, Len(s) - 1)) ELSE s

\* String.prototype.trim
trim(s) == trimRight(trimLeft(s))

\* s.replace(/\s+/g, ' ')
RECURSIVE collapseSpaces(_)
collapseSpaces(s) ==
    IF Len(s) < 2 THEN s
    ELSE IF s[1] = " " /\ s[2] = " " THEN collapseSpaces(Tail(s))
    ELSE <<s[1]>> \o collapseSpaces(Tail(s))

\* s.replace(/[^a-z0-9\s]/g, ' ')
blankNonAlnum(s) ==
    [i \in 1..Len(s) |-> IF s[i] \in LowerChars \cup DigitChars \cup {" "} THEN s[i] ELSE " "]

normalizeForLearning(str) == collapseSpaces(trim(blankNonAlnum(toLowerCase(str))))

\* items.join(sep)
RECURSIVE join(_, _)
join(items, sep) ==
    IF items = <<>> THEN <<>>
    ELSE IF Len(items) = 1 THEN items[1]
    ELSE items[1] \o sep \o join(Tail(items), sep)

\* s.split(/\s+/) (an empty input gives one empty token, as in JavaScript)
RECURSIVE splitSpaces(_, _)
splitSpaces(s, cur) ==
    IF s = <<>> THEN <<cur>>
    ELSE IF Head(s) = " "
         THEN (IF Len(s) > 1 /\ s[2] = " " THEN splitSpaces(Tail(s), cur)
               ELSE <<cur>> \o splitSpaces(Tail(s), <<>>))
         ELSE splitSpaces(Tail(s), Append(cur, Head(s)))

\* decimal digits of a small count, as `${n}` prints it
countChars(n) ==
    CASE n = 0 -> <<"0">> [] n = 1 -> <<"1">> [] n = 2 -> <<"2">> [] n = 3 -> <<"3">>
      [] n = 4 -> <<"4">> [] n = 5 -> <<"5">> [] OTHER -> <<"n">>

-----------------------------------------------------------------------------
(* Records *)

ScoreUnit == 10000

\* a date the record does not carry (null / undefined date)
NoDate == 0

\* the value of a read past the end of an array
Undefined ==
    [kind |-> "undefined", id |-> "undefined", amount |-> 0, accountNumber |-> <<>>,
     checkNumber |-> <<>>, description |-> <<>>, date |-> NoDate,
     hasCombinedItems |-> FALSE, combinedItems |-> <<>>]

BankTransaction(id, date, description, amount, checkNumber) ==
    [kind |-> "bank", id |-> id, amount |-> amount, accountNumber |-> <<>>,
     checkNumber |-> checkNumber, description |-> description, date |-> date,
     hasCombinedItems |-> FALSE, combinedItems |-> <<>>]

GLEntry(id, accountNumber, description, date, amount, checkNumber) ==
    [kind |-> "gl", id |-> id, amount |-> amount, accountNumber |-> accountNumber,
     checkNumber |-> checkNumber, description |-> description, date |-> date,
     hasCombinedItems |-> FALSE, combinedItems |-> <<>>]

IsUndefined(x) == x.kind = "undefined"

\* arr[i] for a 0-based index i
At(arr, i) == IF (i + 1) \in DOMAIN arr THEN arr[i + 1] ELSE Undefined

\* arr.splice(i, 1) for a 0-based index i >= 0
splice(arr, i) ==
    IF (i + 1) \in DOMAIN arr
    THEN SubSeq(arr, 1, i) \o SubSeq(arr, i + 2, Len(arr))
    ELSE arr

Range(s) == {s[i] : i \in DOMAIN s}

Abs(x) == IF x < 0 THEN -x ELSE x

Min(a, b) == IF a < b THEN a ELSE b

Max(a, b) == IF a < b THEN b ELSE a

-----------------------------------------------------------------------------
(* Automatic matcher *)

\* weights.amount, weights.amount * 0.8, weights.checkNumber, weights.date * 0.5
calculateMatchScore(bankTx, glEntry) ==
    LET bankAmount == Abs(bankTx.amount)
        glAmount   == Abs(glEntry.amount)
        amountDiff == Abs(bankAmount - glAmount)
        amountPart == IF amountDiff <= settings.amountTolerance THEN 5000
                      ELSE IF amountDiff * 100 < bankAmount THEN 4000
                      ELSE 0
        checkNum   == stripNonDigits(bankTx.checkNumber)
        acctNum    == stripNonDigits(glEntry.accountNumber)
        checkPart  == IF /\ bankTx.checkNumber # <<>>
                         /\ glEntry.accountNumber # <<>>
                         /\ checkNum # <<>>
                         /\ includes(acctNum, checkNum)
                      THEN 3000 ELSE 0
        datePart   == IF bankTx.date # NoDate /\ settings.dateRange > 0 THEN 1000 ELSE 0
    IN  amountPart + checkPart + datePart

getMatchType(bankTx, glEntry) ==
    LET exact == Abs(Abs(bankTx.amount) - Abs(glEntry.amount)) <= settings.amountTolerance
        check == /\ bankTx.checkNumber # <<>>
                 /\ glEntry.accountNumber # <<>>
                 /\ includes(glEntry.accountNumber, stripNonDigits(bankTx.checkNumber))
    IN  CASE exact /\ check  -> "Exact Amount + Check #"
          [] exact /\ ~check -> "Exact Amount"
          [] ~exact /\ check -> "Check #"
          [] OTHER           -> "Amount Match"

MatchResult(bankTx, glEntry, score, type, manual, multi, count) ==
    [bankTransaction |-> bankTx, glEntry |-> glEntry, matchScore |-> score,
     matchType |-> type, isManual |-> manual, isMultiMatch |-> multi,
     matchedCount |-> count]

\* a variant of scanGL in which a later GL entry with an equal score replaces the best
RECURSIVE scanGLLatest(_, _, _, _)
scanGLLatest(bankTx, matchedGLIndices, k, best) ==
    IF k > Len(glData) THEN best
    ELSE LET score == calculateMatchScore(bankTx, glData[k])
         IN  IF (k - 1) \notin matchedGLIndices /\ score >= best.score /\ score > 5000
             THEN scanGLLatest(bankTx, matchedGLIndices, k + 1,
                               [idx |-> k - 1, score |-> score])
             ELSE scanGLLatest(bankTx, matchedGLIndices, k + 1, best)

\* the inner glData.forEach: the best unclaimed GL entry for one bank transaction,
\* scanning from 1-based position k with the best found so far
RECURSIVE scanGL(_, _, _, _)
scanGL(bankTx, matchedGLIndices, k, best) ==
    IF k > Len(glData) THEN best
    ELSE LET score == calculateMatchScore(bankTx, glData[k])
         IN  IF (k - 1) \notin matchedGLIndices /\ score > best.score /\ score > 5000
             THEN scanGL(bankTx, matchedGLIndices, k + 1, [idx |-> k - 1, score |-> score])
             ELSE scanGL(bankTx, matchedGLIndices, k + 1, best)

\* faulty variant of claimGL: the matched GL index is never recorded
claimNothing(matchedGLIndices, bestGLIdx) == matchedGLIndices

\* what a match adds to matchedGLIndices
claimGL(matchedGLIndices, bestGLIdx) == matchedGLIndices \cup {bestGLIdx}

\* the outer bankData.forEach, from 1-based position k
RECURSIVE matchBank(_, _)
matchBank(k, acc) ==
    IF k > Len(bankData) THEN acc
    ELSE LET bankTx == bankData[k]
             best   == scanGL(bankTx, acc.matchedGLIndices, 1, [idx |-> -1, score |-> 0])
         IN  IF best.idx = -1 THEN matchBank(k + 1, acc)
             ELSE matchBank(k + 1,
                    [matchedBankIndices |-> acc.matchedBankIndices \cup {k - 1},
                     matchedGLIndices   |-> claimGL(acc.matchedGLIndices, best.idx),
                     matched |-> Append(acc.matched,
                                   MatchResult(bankTx, glData[best.idx + 1], best.score,
                                               getMatchType(bankTx, glData[best.idx + 1]),
                                               FALSE, FALSE, 0))])

\* the two collecting loops: the items of arr whose 0-based index is not in taken
RECURSIVE collectUnmatched(_, _, _)
collectUnmatched(arr, taken, k) ==
    IF k > Len(arr) THEN <<>>
    ELSE (IF (k - 1) \in taken THEN <<>> ELSE <<arr[k]>>) \o collectUnmatched(arr, taken, k + 1)

\* faulty variant of reconciliationStart: this.matchedTransactions is not emptied
keptMatches == matchedTransactions

\* the list the matches of a run are pushed to: performReconciliation empties
\* this.matchedTransactions first
reconciliationStart == <<>>

reconciliationResult ==
    LET acc == matchBank(1, [matchedBankIndices |-> {}, matchedGLIndices |-> {},
                             matched |-> reconciliationStart])
    IN  [matched       |-> acc.matched,
         unmatchedBank |-> collectUnmatched(bankData, acc.matchedBankIndices, 1),
         unmatchedGL   |-> collectUnmatched(glData, acc.matchedGLIndices, 1)]

-----------------------------------------------------------------------------
(* Learning store *)

\* feedbackLog entries kept by saveSmartMatchLearning
LogCap == 200

\* the key is absent from localStorage (getItem returns null)
NoLearningData ==
    [version |-> 0, lastUpdated |-> 0, totalAccepted |-> 0, totalDenied |-> 0,
     descToAccount |-> <<>>, amountToAccount |-> <<>>, descToDesc |-> <<>>,
     feedbackLog |-> <<>>]

createEmptyLearningData ==
    [version |-> 1, lastUpdated |-> now, totalAccepted |-> 0, totalDenied |-> 0,
     descToAccount |-> <<>>, amountToAccount |-> <<>>, descToDesc |-> <<>>,
     feedbackLog |-> <<>>]

getSmartMatchLearning ==
    IF localStorage.version = 0 THEN createEmptyLearningData ELSE localStorage

\* faulty variant of capFeedbackLog: slice(0, 200) keeps the oldest entries
keepOldest(log) == IF Len(log) > LogCap THEN SubSeq(log, 1, LogCap) ELSE log

\* data.feedbackLog.slice(-200) when it is longer than 200
capFeedbackLog(log) ==
    IF Len(log) > LogCap THEN SubSeq(log, Len(log) - LogCap + 1, Len(log)) ELSE log

\* the value saveSmartMatchLearning(data) stores at time t
saveSmartMatchLearning(data, t) ==
    [data EXCEPT !.lastUpdated = t, !.feedbackLog = capFeedbackLog(data.feedbackLog)]

amountBucket(amount) ==
    LET abs == Abs(amount)
    IN  CASE abs < 10000   -> "0-100"
          [] abs < 50000   -> "100-500"
          [] abs < 100000  -> "500-1000"
          [] abs < 200000  -> "1000-2000"
          [] abs < 500000  -> "2000-5000"
          [] abs < 1000000 -> "5000-10000"
          [] abs < 5000000 -> "10000-50000"
          [] OTHER         -> "50000+"

\* names every object created by JSON.parse or a literal inherits from
\* Object.prototype
ObjectPrototypeKeys ==
    { <<"c", "o", "n", "s", "t", "r", "u", "c", "t", "o", "r">>,
      <<"t", "o", "S", "t", "r", "i", "n", "g">>,
      <<"v", "a", "l", "u", "e", "O", "f">> }

\* obj[k] is not an own property of obj and has an inherited value
inherited(obj, k) == k \notin DOMAIN obj /\ k \in ObjectPrototypeKeys

\* faulty variant of bumpPattern: the counter is never incremented
bumpNothing(table, k1, k2, field) == table

\* table[k1][k2][field]++ after creating table[k1] and table[k1][k2] when missing
\* (k1 is a bucket or the text of a bank description, which is no inherited name in
\* the inputs); under an inherited name k2 the object has a value already, no
\* counter is created and the ++ lands on that inherited value
bumpPattern(table, k1, k2, field) ==
    LET t1 == IF k1 \in DOMAIN table THEN table ELSE (k1 :> <<>>) @@ table
        t2 == IF k2 \in DOMAIN t1[k1] THEN t1
              ELSE [t1 EXCEPT ![k1] = (k2 :> [accepted |-> 0, denied |-> 0]) @@ t1[k1]]
    IN  IF inherited(t1[k1], k2) THEN t1
        ELSE [t2 EXCEPT ![k1][k2][field] = @ + 1]

\* the entry pushed to feedbackLog
feedbackEntry(suggestion, action, t) ==
    [timestamp |-> t, action |-> action,
     bankDesc |-> suggestion.bankTx.description,
     bankAmount |-> suggestion.bankTx.amount,
     glAccount |-> trim(suggestion.glEntry.accountNumber),
     glDesc |-> suggestion.glEntry.description,
     score |-> suggestion.score]

\* the record acceptSmartMatch / denySmartMatch build before saving it:
\* field is "accepted" or "denied", total the matching counter
recordFeedback(suggestion, field, total, t) ==
    LET learningData == getSmartMatchLearning
        descKey   == normalizeForLearning(suggestion.bankTx.description)
        acctKey   == trim(suggestion.glEntry.accountNumber)
        glDescKey == normalizeForLearning(suggestion.glEntry.description)
        amtBucket == amountBucket(suggestion.bankTx.amount)
    IN  [learningData EXCEPT
            !.descToAccount   = bumpPattern(@, descKey, acctKey, field),
            !.amountToAccount = bumpPattern(@, amtBucket, acctKey, field),
            !.descToDesc      = bumpPattern(@, descKey, glDescKey, field),
            ![total]          = @ + 1,
            !.feedbackLog     = Append(@, feedbackEntry(suggestion, field, t))]

-----------------------------------------------------------------------------
(* Smart match scoring *)

\* faulty variant of calculateAmountScore: the comparisons are strict
amountScoreStrict(sourceAmount, targetAmount) ==
    LET diff == Abs(sourceAmount - targetAmount)
    IN  IF diff < 1 THEN 10000
        ELSE IF sourceAmount > 0 /\ diff * 100 < sourceAmount THEN 8500
        ELSE IF sourceAmount > 0 /\ diff * 20 < sourceAmount THEN 6000
        ELSE IF sourceAmount > 0 /\ diff * 10 < sourceAmount THEN 3000
        ELSE 0

calculateAmountScore(sourceAmount, targetAmount) ==
    LET diff == Abs(sourceAmount - targetAmount)
    IN  IF diff <= 1 THEN 10000
        ELSE IF sourceAmount > 0 /\ diff * 100 <= sourceAmount THEN 8500
        ELSE IF sourceAmount > 0 /\ diff * 20 <= sourceAmount THEN 6000
        ELSE IF sourceAmount > 0 /\ diff * 10 <= sourceAmount THEN 3000
        ELSE 0

\* the token set of calculateTextScore's normalize
textTokens(str) ==
    {t \in Range(splitSpaces(blankNonAlnum(toLowerCase(str)), <<>>)) : Len(t) > 2}

calculateTextScore(sourceDesc, targetDesc) ==
    IF sourceDesc = <<>> \/ targetDesc = <<>> THEN 0
    ELSE LET sourceTokens == textTokens(sourceDesc)
             targetTokens == textTokens(targetDesc)
         IN  IF sourceTokens = {} \/ targetTokens = {} THEN 0
             ELSE (Cardinality(sourceTokens \cap targetTokens) * ScoreUnit)
                    \div Cardinality(sourceTokens \cup targetTokens)

\* 10000 * exp(-2 * days / 3), days = 1, 2, ...: the decay for a half life of 1.5 days
ExpDecayTable == <<5134, 2636, 1353, 695, 357, 183, 94, 48, 25, 13, 7, 3, 2, 1>>

\* dates are day numbers; maxDays <= 3 gives halfLife = 1.5
calculateDateScore(sourceDate, targetDate, maxDays) ==
    IF sourceDate = NoDate \/ targetDate = NoDate THEN 2500
    ELSE LET daysDiff == Abs(sourceDate - targetDate)
         IN  IF daysDiff < 1 THEN 10000
             ELSE IF daysDiff \in DOMAIN ExpDecayTable THEN ExpDecayTable[daysDiff]
             ELSE 0

\* s.slice(-4)
lastFour(s) == SubSeq(s, Max(1, Len(s) - 3), Len(s))

\* the [\d-]+ run starting at 1-based position j
RECURSIVE poDigits(_, _)
poDigits(s, j) ==
    IF j <= Len(s) /\ s[j] \in DigitChars \cup {"-"}
    THEN <<s[j]>> \o poDigits(s, j + 1) ELSE <<>>

RECURSIVE skipSpaces(_, _)
skipSpaces(s, j) == IF j <= Len(s) /\ s[j] = " " THEN skipSpaces(s, j + 1) ELSE j

\* group 1 of /PO[:#]?\s*([\d-]+)/i matched at 1-based position i, <<>> when it fails
poAt(s, i) ==
    IF i + 1 <= Len(s) /\ toLowerChar(s[i]) = "p" /\ toLowerChar(s[i + 1]) = "o"
    THEN LET j == IF i + 2 <= Len(s) /\ s[i + 2] \in {":", "#"} THEN i + 3 ELSE i + 2
         IN  poDigits(s, skipSpaces(s, j))
    ELSE <<>>

\* group 1 of the leftmost match, <<>> when there is none
RECURSIVE poMatch(_, _)
poMatch(s, i) ==
    IF i > Len(s) THEN <<>>
    ELSE IF poAt(s, i) # <<>> THEN poAt(s, i)
    ELSE poMatch(s, i + 1)

calculateRefScore(bankTx, glEntry) ==
    LET bankCheck == stripNonDigits(bankTx.checkNumber)
        glCheck   == stripNonDigits(glEntry.checkNumber)
        glAccount == stripNonDigits(glEntry.accountNumber)
        bankPO    == poMatch(bankTx.description \o <<" ">>, 1)
        glPO      == poMatch(glEntry.description, 1)
    IN  IF bankCheck # <<>> /\ Len(bankCheck) >= 3 /\ glCheck # <<>> /\ glCheck = bankCheck
        THEN 10000
        ELSE IF /\ bankCheck # <<>> /\ Len(bankCheck) >= 3
                /\ glAccount # <<>> /\ includes(glAccount, bankCheck)
        THEN 9000
        ELSE IF /\ bankCheck # <<>> /\ Len(bankCheck) >= 3
                /\ glCheck # <<>> /\ lastFour(glCheck) = lastFour(bankCheck)
        THEN 6000
        ELSE IF bankPO # <<>> /\ glPO # <<>> /\ bankPO = glPO THEN 8000
        ELSE 0

\* 10000 * tanh(0.3 * n) and 10000 * tanh(0.2 * n), n = 1, 2, ...
Tanh03Table ==
    <<2913, 5370, 7163, 8337, 9051, 9468, 9705, 9837, 9910, 9951, 9973, 9985,
      9992, 9996, 9998, 9999, 9999>>

Tanh02Table ==
    <<1974, 3799, 5370, 6640, 7616, 8337, 8854, 9217, 9468, 9640, 9757, 9837,
      9890, 9926, 9951, 9967, 9978, 9985, 9990, 9993, 9996, 9997, 9998, 9999,
      9999, 9999>>

\* weight * tanh(net * k), rounded to the score unit; table holds tanh(n * k)
tanhTerm(table, net, weight) ==
    LET n == Abs(net)
        t == IF n = 0 THEN 0 ELSE IF n \in DOMAIN table THEN table[n] ELSE ScoreUnit
        v == (weight * t + 5000) \div ScoreUnit
    IN  IF net < 0 THEN -v ELSE v

\* rec.accepted - rec.denied of table[k1][k2], 0 when there is no such record
patternNet(table, k1, k2) ==
    IF k1 \in DOMAIN table /\ k2 \in DOMAIN table[k1]
    THEN table[k1][k2].accepted - table[k1][k2].denied
    ELSE 0

calculateLearningBias(bankTx, glEntry) ==
    LET learningData == getSmartMatchLearning
        descKey   == normalizeForLearning(bankTx.description)
        acctKey   == trim(glEntry.accountNumber)
        glDescKey == normalizeForLearning(glEntry.description)
        amtBucket == amountBucket(bankTx.amount)
        bias ==
            tanhTerm(Tanh03Table,
                     patternNet(learningData.descToAccount, descKey, acctKey), 600)
            + tanhTerm(Tanh02Table,
                       patternNet(learningData.amountToAccount, amtBucket, acctKey), 200)
            + tanhTerm(Tanh03Table,
                       patternNet(learningData.descToDesc, descKey, glDescKey), 200)
    IN  Max(-1000, Min(1000, bias))

-----------------------------------------------------------------------------
(* Inputs *)

\* the settings the constructor sets: dateRange 3, amountTolerance 0.00
DefaultDateRange == 3

DateRanges == {0, 3}

Day15 == 15

BankInputs ==
    { << BankTransaction("b1", Day15, <<"T", "a", "x">>, 30000, <<>>) >>,
      << BankTransaction("b2", Day15, <<"F", "e", "e">>, 10000, <<"4", "4", "1", "2">>) >> }

GLInputs ==
    { << GLEntry("g1", <<"4", "4", "1", "2">>, <<"f", "e", "e">>, NoDate, 10000, <<>>),
         GLEntry("g2", <<"1", "0", "0", "1">>, <<"T", "a", "x">>, NoDate, 20000, <<>>) >> }

\* the form data of the custom entry dialog
CustomInputs ==
    { [accountNumber |-> <<>>, description |-> <<"A", "d", "j">>, type |-> "adjustment",
       amount |-> 10000, date |-> NoDate] }

-----------------------------------------------------------------------------
(* Manual matching *)

\* this.manualMatchSource = null
NoSource == [type |-> "none", idx |-> -1]

ManualMatchSource(type, idx) == [type |-> type, idx |-> idx]

\* the DOM of the candidate list: how many checkboxes input[name=manualMatch] are
\* rendered (their values are 0 .. rendered - 1) and the values of the checked ones
NoCandidates == [rendered |-> 0, checked |-> {}]

sourceList(type) == IF type = "bank" THEN unmatchedBank ELSE unmatchedGL

targetList(type) == IF type = "bank" THEN unmatchedGL ELSE unmatchedBank

\* displayResults() and the table rendering it triggers dereference every
\* entry of the three lists (the 'matched' tab is the one shown)
displayResultsThrows(matched, ub, ug) ==
    \/ \E i \in DOMAIN matched :
          IsUndefined(matched[i].bankTransaction) \/ IsUndefined(matched[i].glEntry)
    \/ \E i \in DOMAIN ub : IsUndefined(ub[i])
    \/ \E i \in DOMAIN ug : IsUndefined(ug[i])

\* the message of the TypeError a read of property prop of undefined / null throws
TypeErrorReading(prop) == "TypeError: reading '" \o prop \o "'"

TypeErrors ==
    {TypeErrorReading("amount"), TypeErrorReading("type"),
     TypeErrorReading("isMultiMatch"), TypeErrorReading("combinedItems")}

displayOutcome(matched, ub, ug) ==
    IF displayResultsThrows(matched, ub, ug) THEN TypeErrorReading("amount") ELSE "ok"

\* arr.sort((a, b) => b.idx - a.idx) on a list of idx
RECURSIVE insertDescending(_, _)
insertDescending(x, sorted) ==
    IF sorted = <<>> THEN <<x>>
    ELSE IF x > Head(sorted) THEN <<x>> \o sorted
    ELSE <<Head(sorted)>> \o insertDescending(x, Tail(sorted))

RECURSIVE sortDescending(_)
sortDescending(xs) ==
    IF xs = <<>> THEN <<>> ELSE insertDescending(Head(xs), sortDescending(Tail(xs)))

\* the idx of a selection, highest first
RECURSIVE descending(_)
descending(idxs) ==
    IF idxs = {} THEN <<>>
    ELSE LET top == CHOOSE x \in idxs : \A y \in idxs : y <= x
         IN  <<top>> \o descending(idxs \ {top})

\* removing the 0-based indices of descending list idxs one after the other
RECURSIVE spliceAll(_, _)
spliceAll(arr, idxs) ==
    IF idxs = <<>> THEN arr ELSE spliceAll(splice(arr, Head(idxs)), Tail(idxs))

RECURSIVE sumAmounts(_)
sumAmounts(items) ==
    IF items = <<>> THEN 0 ELSE Abs(Head(items).amount) + sumAmounts(Tail(items))

\* items.map(x => x[field]).filter(d => d)
nonEmptyFields(items, field) ==
    SelectSeq([i \in DOMAIN items |-> items[i][field]], LAMBDA d : d # <<>>)

\* `[${items.length} items combined] ` + descriptions joined by '; '
combinedDescription(items) ==
    <<"[">> \o countChars(Len(items)) \o <<" ", "i", "t", "e", "m", "s", " ", "c", "o",
      "m", "b", "i", "n", "e", "d", "]", " ">>
      \o join(nonEmptyFields(items, "description"), <<";", " ">>)

\* the synthetic glEntry / bankTransaction of a multi-match or split
CombinedEntity(accountNumber, description, date, amount, items) ==
    [kind |-> "combined", id |-> "combined", amount |-> amount,
     accountNumber |-> accountNumber, checkNumber |-> <<>>,
     description |-> description, date |-> date,
     hasCombinedItems |-> TRUE, combinedItems |-> items]

\* what confirmMultiMatch stores as combinedItems
multiMatchItems(items) == items

\* the lists after confirmMultiMatch's record moves
multiMatchResult(source, selected) ==
    LET sortedSelections == descending(selected)
        sourceItem == At(sourceList(source.type), source.idx)
        items == [k \in DOMAIN sortedSelections |->
                     At(targetList(source.type), sortedSelections[k])]
        total == sumAmounts(items)
        description == IF Len(items) > 1 THEN combinedDescription(items)
                       ELSE items[1].description
    IN  IF source.type = "bank"
        THEN [matched |-> Append(matchedTransactions,
                 MatchResult(sourceItem,
                     CombinedEntity(join([k \in DOMAIN items |-> items[k].accountNumber],
                                         <<",", " ">>),
                                    description, NoDate, total, multiMatchItems(items)),
                     ScoreUnit, "Multi-Match (" \o ToString(Len(items)) \o " GL -> 1 Bank)",
                     TRUE, TRUE, Len(items))),
              unmatchedBank |-> splice(unmatchedBank, source.idx),
              unmatchedGL |-> spliceAll(unmatchedGL, sortedSelections)]
        ELSE [matched |-> Append(matchedTransactions,
                 MatchResult(
                     CombinedEntity(<<>>, description, items[1].date, total,
                                    multiMatchItems(items)),
                     sourceItem,
                     ScoreUnit, "Multi-Match (" \o ToString(Len(items)) \o " Bank -> 1 GL)",
                     TRUE, TRUE, Len(items))),
              unmatchedBank |-> spliceAll(unmatchedBank, sortedSelections),
              unmatchedGL |-> splice(unmatchedGL, source.idx)]

\* the lists after the single-selection branch of confirmManualMatch
singleMatchResult(source, targetIdx) ==
    LET bankItem == IF source.type = "bank" THEN At(unmatchedBank, source.idx)
                    ELSE At(unmatchedBank, targetIdx)
        glItem   == IF source.type = "bank" THEN At(unmatchedGL, targetIdx)
                    ELSE At(unmatchedGL, source.idx)
    IN  [matched |-> Append(matchedTransactions,
             MatchResult(bankItem, glItem, ScoreUnit, "Manual Match", TRUE, FALSE, 0)),
         unmatchedBank |-> splice(unmatchedBank,
                              IF source.type = "bank" THEN source.idx ELSE targetIdx),
         unmatchedGL |-> splice(unmatchedGL,
                              IF source.type = "bank" THEN targetIdx ELSE source.idx)]

customMatchType(type) ==
    CASE type = "adjustment" -> "Custom Adjustment" [] OTHER -> "Custom"

\* the entry createCustomMatch builds from the form data
CustomEntity(source, customData) ==
    [kind |-> "custom", id |-> "custom", amount |-> customData.amount,
     accountNumber |-> IF source.type = "bank"
                       THEN (IF customData.accountNumber # <<>> THEN customData.accountNumber
                             ELSE <<"C", "U", "S", "T", "O", "M">>)
                       ELSE <<>>,
     checkNumber |-> IF source.type = "bank" THEN <<>> ELSE customData.accountNumber,
     description |-> customData.description,
     date |-> IF source.type = "bank" THEN NoDate ELSE customData.date,
     hasCombinedItems |-> FALSE, combinedItems |-> <<>>]

\* the lists after createCustomMatch's record moves
customMatchResult(source, customData) ==
    LET sourceItem == At(sourceList(source.type), source.idx)
        custom     == CustomEntity(source, customData)
    IN  [matched |-> Append(matchedTransactions,
             IF source.type = "bank"
             THEN MatchResult(sourceItem, custom, ScoreUnit,
                              customMatchType(customData.type), TRUE, FALSE, 0)
             ELSE MatchResult(custom, sourceItem, ScoreUnit,
                              customMatchType(customData.type), TRUE, FALSE, 0)),
         unmatchedBank |-> IF source.type = "bank" THEN splice(unmatchedBank, source.idx)
                           ELSE unmatchedBank,
         unmatchedGL |-> IF source.type = "bank" THEN unmatchedGL
                         ELSE splice(unmatchedGL, source.idx)]

\* what unmatchTransaction pushes to unmatchedBank and to unmatchedGL
unmatchRestored(match) ==
    IF match.isMultiMatch
    THEN IF match.bankTransaction.hasCombinedItems
         THEN [bank |-> match.bankTransaction.combinedItems, gl |-> <<match.glEntry>>]
         ELSE IF match.glEntry.hasCombinedItems
         THEN [bank |-> <<match.bankTransaction>>, gl |-> match.glEntry.combinedItems]
         ELSE [bank |-> <<>>, gl |-> <<>>]
    ELSE [bank |-> <<match.bankTransaction>>, gl |-> <<match.glEntry>>]

-----------------------------------------------------------------------------
(* Smart match suggestions *)

\* candidates kept by suggestions.slice(0, 5)
TopSuggestions == 5

\* the cap of the 3-way search: Math.min(targets.length, 50)
TripleCap == 50

Suggestion(score, scores, bankTx, glEntry, targetIndex, isSplit, targetIndices, targetItems) ==
    [score |-> score, scores |-> scores, bankTx |-> bankTx, glEntry |-> glEntry,
     targetIndex |-> targetIndex, isSplit |-> isSplit,
     targetIndices |-> targetIndices, targetItems |-> targetItems]

\* faulty variant of withinSubsetTolerance: the 1% tolerance is left out
exactSumOnly(sum, sourceAmount) == sum = sourceAmount

withinSubsetTolerance(sum, sourceAmount) == Abs(sum - sourceAmount) * 100 <= sourceAmount

\* the 2-way loops of findSubsetMatches from 0-based (i, j)
RECURSIVE subsetPairs(_, _, _, _)
subsetPairs(sourceAmount, targets, i, j) ==
    IF i >= Len(targets) THEN <<>>
    ELSE IF j >= Len(targets) THEN subsetPairs(sourceAmount, targets, i + 1, i + 2)
    ELSE (IF withinSubsetTolerance(Abs(targets[i + 1].amount) + Abs(targets[j + 1].amount),
                                   sourceAmount)
          THEN << [indices |-> <<i, j>>, items |-> <<targets[i + 1], targets[j + 1]>>] >>
          ELSE <<>>)
         \o subsetPairs(sourceAmount, targets, i, j + 1)

\* the 3-way loops of findSubsetMatches from 0-based (i, j, k)
RECURSIVE subsetTriples(_, _, _, _, _, _)
subsetTriples(sourceAmount, targets, cap, i, j, k) ==
    IF i >= cap THEN <<>>
    ELSE IF j >= cap THEN subsetTriples(sourceAmount, targets, cap, i + 1, i + 2, i + 3)
    ELSE IF k >= cap THEN subsetTriples(sourceAmount, targets, cap, i, j + 1, j + 2)
    ELSE (IF withinSubsetTolerance(Abs(targets[i + 1].amount) + Abs(targets[j + 1].amount)
                                     + Abs(targets[k + 1].amount), sourceAmount)
          THEN << [indices |-> <<i, j, k>>,
                   items |-> <<targets[i + 1], targets[j + 1], targets[k + 1]>>] >>
          ELSE <<>>)
         \o subsetTriples(sourceAmount, targets, cap, i, j, k + 1)

findSubsetMatches(sourceAmount, targets) ==
    subsetPairs(sourceAmount, targets, 0, 1)
      \o subsetTriples(sourceAmount, targets, Min(Len(targets), TripleCap), 0, 1, 2)

\* a variant that adds the four signals without their weights
finalScoreUnweighted(scores) ==
    scores.amount + scores.text + scores.date + scores.ref + scores.learningBias

\* (0.40 * amount) + (0.20 * text) + (0.15 * date) + (0.15 * ref) + learningBias
finalScore(scores) ==
    (40 * scores.amount + 20 * scores.text + 15 * scores.date + 15 * scores.ref) \div 100
      + scores.learningBias

\* what the forEach pushes for one target: nothing below a final score of 0.40
scoredSuggestion(scores, bankTx, glEntry, idx) ==
    IF finalScore(scores) >= 4000
    THEN << Suggestion(finalScore(scores), scores, bankTx, glEntry, idx, FALSE, <<>>, <<>>) >>
    ELSE <<>>

\* the targetItems.forEach body for the target at 0-based idx
singleSuggestion(source, sourceItem, target, idx, bankTx, glEntry) ==
    scoredSuggestion(
        [amount |-> calculateAmountScore(Abs(sourceItem.amount), Abs(target.amount)),
         text |-> calculateTextScore(sourceItem.description \o <<" ">>,
                                     target.description \o <<" ">>),
         date |-> calculateDateScore(sourceItem.date, target.date, settings.dateRange),
         ref |-> calculateRefScore(bankTx, glEntry),
         learningBias |-> calculateLearningBias(bankTx, glEntry)],
        bankTx, glEntry, idx)

\* the targetItems.forEach, from 1-based position k
RECURSIVE singleSuggestions(_, _, _, _)
singleSuggestions(source, sourceItem, targetItems, k) ==
    IF k > Len(targetItems) THEN <<>>
    ELSE singleSuggestion(source, sourceItem, targetItems[k], k - 1,
                          IF source.type = "bank" THEN sourceItem ELSE targetItems[k],
                          IF source.type = "bank" THEN targetItems[k] ELSE sourceItem)
           \o singleSuggestions(source, sourceItem, targetItems, k + 1)

\* Math.min(0.40 * 0.95 + 0.10, 0.80)
splitScore == Min((40 * 9500) \div 100 + 1000, 8000)

splitSuggestion(source, sourceItem, subset) ==
    Suggestion(splitScore,
               [amount |-> 9500, text |-> 0, date |-> 0, ref |-> 0, learningBias |-> 0],
               IF source.type = "bank" THEN sourceItem ELSE subset.items[1],
               IF source.type = "bank" THEN subset.items[1] ELSE sourceItem,
               -1, TRUE, subset.indices, subset.items)

\* insert suggestion x behind every entry whose score is not lower
RECURSIVE insertByScore(_, _)
insertByScore(x, sorted) ==
    IF sorted = <<>> THEN <<x>>
    ELSE IF x.score > Head(sorted).score THEN <<x>> \o sorted
    ELSE <<Head(sorted)>> \o insertByScore(x, Tail(sorted))

\* suggestions.sort((a, b) => b.score - a.score), a stable sort
RECURSIVE sortByScore(_)
sortByScore(xs) ==
    IF xs = <<>> THEN <<>>
    ELSE insertByScore(xs[Len(xs)], sortByScore(SubSeq(xs, 1, Len(xs) - 1)))

\* the split suggestions: none when a single suggestion scores 0.85 or more
splitSuggestions(source, sourceItem, targetItems, singles) ==
    IF \E k \in DOMAIN singles : singles[k].score >= 8500 THEN <<>>
    ELSE [k \in DOMAIN findSubsetMatches(Abs(sourceItem.amount), targetItems) |->
             splitSuggestion(source, sourceItem,
                             findSubsetMatches(Abs(sourceItem.amount), targetItems)[k])]

withSplits(source, sourceItem, targetItems, singles) ==
    singles \o splitSuggestions(source, sourceItem, targetItems, singles)

\* a variant without the slice: every suggestion is kept
everySuggestion(sorted) == sorted

\* suggestions.slice(0, 5)
topSuggestions(sorted) == SubSeq(sorted, 1, Min(TopSuggestions, Len(sorted)))

\* the list the timer callback of generateSmartMatchSuggestions stores
smartSuggestions(source, sourceItem, targetItems) ==
    topSuggestions(sortByScore(withSplits(source, sourceItem, targetItems,
                       singleSuggestions(source, sourceItem, targetItems, 1))))

\* the combined entity of an accepted split
splitCombined(source, targetItems) ==
    CombinedEntity(IF source.type = "bank"
                   THEN join([k \in DOMAIN targetItems |-> targetItems[k].accountNumber],
                             <<",", " ">>)
                   ELSE <<>>,
                   combinedDescription(targetItems), targetItems[1].date,
                   sumAmounts(targetItems), targetItems)

\* the lists after executeSmartMatchAccept's record moves (source is not null)
smartAcceptResult(source, suggestion) ==
    LET sourceItem == At(sourceList(source.type), source.idx)
    IN  IF suggestion.isSplit
        THEN LET sortedIndices == sortDescending(suggestion.targetIndices)
                 combined == splitCombined(source, suggestion.targetItems)
                 type == "Smart Match (" \o ToString(Len(suggestion.targetItems)) \o "-way split)"
             IN  IF source.type = "bank"
                 THEN [matched |-> Append(matchedTransactions,
                          MatchResult(sourceItem, combined, suggestion.score, type,
                                      TRUE, TRUE, Len(suggestion.targetItems))),
                       unmatchedBank |-> splice(unmatchedBank, source.idx),
                       unmatchedGL |-> spliceAll(unmatchedGL, sortedIndices)]
                 ELSE [matched |-> Append(matchedTransactions,
                          MatchResult(combined, sourceItem, suggestion.score, type,
                                      TRUE, TRUE, Len(suggestion.targetItems))),
                       unmatchedBank |-> spliceAll(unmatchedBank, sortedIndices),
                       unmatchedGL |-> splice(unmatchedGL, source.idx)]
        ELSE LET targetItem == At(targetList(source.type), suggestion.targetIndex)
             IN  [matched |-> Append(matchedTransactions,
                      IF source.type = "bank"
                      THEN MatchResult(sourceItem, targetItem, suggestion.score,
                                       "Smart Match", TRUE, FALSE, 0)
                      ELSE MatchResult(targetItem, sourceItem, suggestion.score,
                                       "Smart Match", TRUE, FALSE, 0)),
                  unmatchedBank |-> splice(unmatchedBank,
                      IF source.type = "bank" THEN source.idx ELSE suggestion.targetIndex),
                  unmatchedGL |-> splice(unmatchedGL,
                      IF source.type = "bank" THEN suggestion.targetIndex ELSE source.idx)]

-----------------------------------------------------------------------------
(* Saved reconciliations *)

\* no reconciliation has been saved
NothingSaved ==
    [saved |-> FALSE, settings |-> <<>>, matchedTransactions |-> <<>>,
     unmatchedBank |-> <<>>, unmatchedGL |-> <<>>]

\* what saveReconciliation keeps of a match: bankTransaction, glEntry, matchScore,
\* matchType and isManual; isMultiMatch and matchedCount are not sent, so they are
\* undefined (falsy) in the match that is loaded
savedMatch(m) == [m EXCEPT !.isMultiMatch = FALSE, !.matchedCount = 0]

\* the body of POST /reconciliation/save as the server stores it
savedData ==
    [saved |-> TRUE, settings |-> settings,
     matchedTransactions |-> [k \in DOMAIN matchedTransactions |->
                                 savedMatch(matchedTransactions[k])],
     unmatchedBank |-> unmatchedBank, unmatchedGL |-> unmatchedGL]

\* the orders in which collection.get() can return the documents of a list: they
\* are stored under generated ids and come back in the order of the ids
Orderings(list) ==
    { [k \in DOMAIN list |-> list[p[k]]] :
        p \in { q \in [DOMAIN list -> DOMAIN list] : \A i, j \in DOMAIN list :
                                                     q[i] = q[j] => i = j } }

-----------------------------------------------------------------------------
(* State after construction *)

\* no helper has been called
NoCall == [fn |-> "none", args |-> <<>>, value |-> <<>>]

InitialSettings == [dateRange |-> DefaultDateRange, amountTolerance |-> 0]

\* rerun: the latest run was a second run on these inputs, started from lists that
\* earlier operations had changed
NoRun ==
    [ran |-> FALSE, rerun |-> FALSE,
     result |-> [matched |-> <<>>, unmatchedBank |-> <<>>, unmatchedGL |-> <<>>]]

\* the fields the constructor sets; localStorage is what earlier sessions left
Constructed ==
    /\ bankData = <<>>
    /\ glData = <<>>
    /\ settings = InitialSettings
    /\ matchedTransactions = <<>>
    /\ unmatchedBank = <<>>
    /\ unmatchedGL = <<>>
    /\ manualMatchSource = NoSource
    /\ selectedMatches = {}
    /\ domCandidates = NoCandidates
    /\ smartMatchSuggestions = <<>>
    /\ smartTimers = 0
    /\ now = 0
    /\ outcome = "ok"
    /\ lastRun = NoRun
    /\ call = NoCall
    /\ smartRequests = <<>>
    /\ savedReconciliation = NothingSaved

\* a first session: nothing stored under the learning key
Init ==
    /\ Constructed
    /\ localStorage = NoLearningData

\* the feedback entries an earlier session stored: it accepted the same suggestion
\* at times 1 - LogCap .. 0
PriorEntry(k) ==
    [timestamp |-> k - LogCap, action |-> "accepted",
     bankDesc |-> <<"F", "e", "e">>, bankAmount |-> 10000,
     glAccount |-> <<"4", "4", "1", "2">>, glDesc |-> <<"f", "e", "e">>, score |-> 7725]

\* the learning data of an earlier session whose log stands at its cap
PriorLearning ==
    [version |-> 1, lastUpdated |-> 0, totalAccepted |-> LogCap, totalDenied |-> 0,
     descToAccount |-> (<<"f", "e", "e">> :>
                          (<<"4", "4", "1", "2">> :> [accepted |-> LogCap, denied |-> 0])),
     amountToAccount |-> ("100-500" :>
                          (<<"4", "4", "1", "2">> :> [accepted |-> LogCap, denied |-> 0])),
     descToDesc |-> (<<"f", "e", "e">> :>
                          (<<"f", "e", "e">> :> [accepted |-> LogCap, denied |-> 0])),
     feedbackLog |-> [k \in 1..LogCap |-> PriorEntry(k)]]

\* a later session: localStorage holds what the earlier one saved
InitPersisted ==
    /\ Constructed
    /\ localStorage = PriorLearning

-----------------------------------------------------------------------------
(* Handlers *)

\* every entity held by the three lists
heldEntities(matched, ub, ug) ==
    ub \o ug \o [k \in DOMAIN matched |-> matched[k].bankTransaction]
       \o [k \in DOMAIN matched |-> matched[k].glEntry]

countKind(entities, kind) == Cardinality({k \in DOMAIN entities : entities[k].kind = kind})

withinBounds(matched, ub, ug) ==
    /\ countKind(heldEntities(matched, ub, ug), "undefined") <= MaxUndefined
    /\ countKind(heldEntities(matched, ub, ug), "custom") <= MaxCustom

\* the three lists after a handler's record moves
setLists(r) ==
    /\ withinBounds(r.matched, r.unmatchedBank, r.unmatchedGL)
    /\ matchedTransactions' = r.matched
    /\ unmatchedBank' = r.unmatchedBank
    /\ unmatchedGL' = r.unmatchedGL

listsUnchanged == UNCHANGED <<matchedTransactions, unmatchedBank, unmatchedGL>>

\* every handler and callback runs at a later time than the one before it
tick == now < MaxTime /\ now' = now + 1

\* parseServerSideFile for the bank file: this.bankData = result.data
LoadBank(data) ==
    /\ bankData' = data
    /\ lastRun' = NoRun
    /\ outcome' = "ok"
    /\ tick
    /\ UNCHANGED <<call, smartRequests, savedReconciliation>>
    /\ UNCHANGED <<glData, settings, matchedTransactions, unmatchedBank, unmatchedGL,
                   manualMatchSource, selectedMatches, domCandidates,
                   smartMatchSuggestions, smartTimers, localStorage>>

\* parseServerSideFile for the GL file: this.glData = result.data
LoadGL(data) ==
    /\ glData' = data
    /\ lastRun' = NoRun
    /\ outcome' = "ok"
    /\ tick
    /\ UNCHANGED <<call, smartRequests, savedReconciliation>>
    /\ UNCHANGED <<bankData, settings, matchedTransactions, unmatchedBank, unmatchedGL,
                   manualMatchSource, selectedMatches, domCandidates,
                   smartMatchSuggestions, smartTimers, localStorage>>

\* the change handler of the dateRange input
SetDateRange(d) ==
    /\ settings' = [settings EXCEPT !.dateRange = d]
    /\ lastRun' = IF d = settings.dateRange THEN lastRun ELSE NoRun
    /\ outcome' = "ok"
    /\ tick
    /\ UNCHANGED <<call, smartRequests, savedReconciliation>>
    /\ UNCHANGED <<bankData, glData, matchedTransactions, unmatchedBank, unmatchedGL,
                   manualMatchSource, selectedMatches, domCandidates,
                   smartMatchSuggestions, smartTimers, localStorage>>

PerformReconciliation ==
    /\ setLists(reconciliationResult)
    /\ lastRun' = [ran |-> TRUE,
                   rerun |-> lastRun.ran /\ matchedTransactions # lastRun.result.matched,
                   result |-> reconciliationResult]
    /\ outcome' = "ok"
    /\ tick
    /\ UNCHANGED <<call, smartRequests, savedReconciliation>>
    /\ UNCHANGED <<bankData, glData, settings, manualMatchSource, selectedMatches,
                   domCandidates, smartMatchSuggestions, smartTimers, localStorage>>

anyUndefined(items) == \E k \in DOMAIN items : IsUndefined(items[k])

ShowManualMatch(sourceType, sourceIdx) ==
    LET sourceItem == At(sourceList(sourceType), sourceIdx)
        targetItems == targetList(sourceType)
        throws == IsUndefined(sourceItem) \/ anyUndefined(targetItems)
    IN  /\ manualMatchSource' = ManualMatchSource(sourceType, sourceIdx)
        /\ selectedMatches' = {}
        /\ domCandidates' = IF throws THEN domCandidates
                            ELSE [rendered |-> Len(targetItems), checked |-> {}]
        /\ outcome' = IF throws THEN TypeErrorReading("amount") ELSE "ok"
        /\ tick
        /\ UNCHANGED <<call, smartRequests, savedReconciliation>>
        /\ UNCHANGED <<bankData, glData, settings, matchedTransactions, unmatchedBank,
                       unmatchedGL, smartMatchSuggestions, smartTimers, localStorage, lastRun>>

\* selectManualMatch: toggle the checkbox and run its change listener
SelectManualMatch(targetIdx) ==
    /\ targetIdx \in 0..(domCandidates.rendered - 1)
    /\ domCandidates' =
          [domCandidates EXCEPT !.checked = IF targetIdx \in @ THEN @ \ {targetIdx}
                                            ELSE @ \cup {targetIdx}]
    /\ selectedMatches' =
          IF targetIdx \in domCandidates.checked
          THEN selectedMatches \ {targetIdx}
          ELSE selectedMatches \cup {targetIdx}
    /\ outcome' = "ok"
    /\ tick
    /\ UNCHANGED <<call, smartRequests, savedReconciliation>>
    /\ UNCHANGED <<bankData, glData, settings, matchedTransactions, unmatchedBank,
                   unmatchedGL, manualMatchSource, smartMatchSuggestions, smartTimers,
                   localStorage, lastRun>>

\* clearSelectionBtn.onclick
ClearSelection ==
    /\ domCandidates' = [domCandidates EXCEPT !.checked = {}]
    /\ selectedMatches' = {}
    /\ outcome' = "ok"
    /\ tick
    /\ UNCHANGED <<call, smartRequests, savedReconciliation>>
    /\ UNCHANGED <<bankData, glData, settings, matchedTransactions, unmatchedBank,
                   unmatchedGL, manualMatchSource, smartMatchSuggestions, smartTimers,
                   localStorage, lastRun>>

CloseManualMatchModal ==
    /\ selectedMatches' = {}
    /\ manualMatchSource' = NoSource
    /\ outcome' = "ok"
    /\ tick
    /\ UNCHANGED <<call, smartRequests, savedReconciliation>>
    /\ UNCHANGED <<bankData, glData, settings, matchedTransactions, unmatchedBank,
                   unmatchedGL, domCandidates, smartMatchSuggestions, smartTimers,
                   localStorage, lastRun>>

\* confirmMultiMatch entered with this.selectedMatches = selected
multiMatchStep(selected) ==
    LET source == manualMatchSource
        items == [k \in DOMAIN descending(selected) |->
                     At(targetList(source.type), descending(selected)[k])]
    IN  IF selected = {}
        THEN /\ outcome' = "alert"
             /\ selectedMatches' = selected
             /\ UNCHANGED manualMatchSource
             /\ listsUnchanged
        ELSE IF source = NoSource \/ anyUndefined(items)
        THEN /\ outcome' = (IF source = NoSource THEN TypeErrorReading("type")
                                  ELSE TypeErrorReading("amount"))
             /\ selectedMatches' = selected
             /\ UNCHANGED manualMatchSource
             /\ listsUnchanged
        ELSE /\ setLists(multiMatchResult(source, selected))
             /\ selectedMatches' = {}
             /\ manualMatchSource' = NoSource
             /\ outcome' = displayOutcome(matchedTransactions', unmatchedBank', unmatchedGL')

ConfirmMultiMatch ==
    /\ multiMatchStep(selectedMatches)
    /\ tick
    /\ UNCHANGED <<call, smartRequests, savedReconciliation>>
    /\ UNCHANGED <<bankData, glData, settings, domCandidates, smartMatchSuggestions,
                   smartTimers, localStorage, lastRun>>

ConfirmManualMatch ==
    LET source == manualMatchSource
        selected == domCandidates.checked
    IN  /\ IF selectedMatches # {}
           THEN multiMatchStep(selectedMatches)
           ELSE IF selected = {}
           THEN /\ outcome' = "alert"
                /\ UNCHANGED <<selectedMatches, manualMatchSource>>
                /\ listsUnchanged
           ELSE IF Cardinality(selected) > 1
           THEN multiMatchStep(selected)
           ELSE IF source = NoSource
           THEN /\ outcome' = TypeErrorReading("type")
                /\ UNCHANGED <<selectedMatches, manualMatchSource>>
                /\ listsUnchanged
           ELSE /\ setLists(singleMatchResult(source, CHOOSE targetIdx \in selected : TRUE))
                /\ selectedMatches' = {}
                /\ manualMatchSource' = NoSource
                /\ outcome' = displayOutcome(matchedTransactions', unmatchedBank',
                                             unmatchedGL')
        /\ tick
        /\ UNCHANGED <<call, smartRequests, savedReconciliation>>
        /\ UNCHANGED <<bankData, glData, settings, domCandidates, smartMatchSuggestions,
                       smartTimers, localStorage, lastRun>>

CreateCustomMatch(customData) ==
    /\ IF manualMatchSource = NoSource
       THEN /\ outcome' = "console.error"
            /\ listsUnchanged
       ELSE /\ setLists(customMatchResult(manualMatchSource, customData))
            /\ outcome' = displayOutcome(matchedTransactions', unmatchedBank', unmatchedGL')
    /\ tick
    /\ UNCHANGED <<call, smartRequests, savedReconciliation>>
    /\ UNCHANGED <<bankData, glData, settings, manualMatchSource, selectedMatches,
                   domCandidates, smartMatchSuggestions, smartTimers, localStorage, lastRun>>

\* generateSmartMatchSuggestions up to its setTimeout
GenerateSmartMatchSuggestions ==
    /\ smartTimers < MaxTimers
    /\ smartTimers' = smartTimers + 1
    /\ smartRequests' = Append(smartRequests, manualMatchSource)
    /\ outcome' = "ok"
    /\ tick
    /\ UNCHANGED <<call, savedReconciliation>>
    /\ UNCHANGED <<bankData, glData, settings, matchedTransactions, unmatchedBank,
                   unmatchedGL, manualMatchSource, selectedMatches, domCandidates,
                   smartMatchSuggestions, localStorage, lastRun>>

\* the callback generateSmartMatchSuggestions hands to setTimeout
FireSmartMatchTimer ==
    LET source == manualMatchSource
        throws == \/ source = NoSource
                  \/ IsUndefined(At(sourceList(source.type), source.idx))
                  \/ anyUndefined(targetList(source.type))
    IN  /\ smartTimers > 0
        /\ smartTimers' = smartTimers - 1
        /\ smartMatchSuggestions' =
              IF throws THEN smartMatchSuggestions
              ELSE smartSuggestions(source, At(sourceList(source.type), source.idx),
                                    targetList(source.type))
        /\ outcome' = IF ~throws THEN "ok"
                      ELSE IF source = NoSource THEN TypeErrorReading("type")
                      ELSE TypeErrorReading("amount")
        /\ tick
        /\ smartRequests' = Tail(smartRequests)
        /\ UNCHANGED <<call, savedReconciliation>>
        /\ UNCHANGED <<bankData, glData, settings, matchedTransactions, unmatchedBank,
                       unmatchedGL, manualMatchSource, selectedMatches, domCandidates,
                       localStorage, lastRun>>

\* the learning record acceptSmartMatch saves before it executes the match
acceptedLearning(suggestion, t) ==
    saveSmartMatchLearning(recordFeedback(suggestion, "accepted", "totalAccepted", t), t)

AcceptSmartMatch(suggestionIndex) ==
    LET suggestion == At(smartMatchSuggestions, suggestionIndex)
    IN  /\ IF (suggestionIndex + 1) \notin DOMAIN smartMatchSuggestions
           THEN /\ outcome' = "return"
                /\ listsUnchanged
                /\ UNCHANGED <<smartMatchSuggestions, localStorage>>
           ELSE /\ localStorage' = acceptedLearning(suggestion, now + 1)
                /\ IF manualMatchSource = NoSource
                   THEN /\ outcome' = TypeErrorReading("type")
                        /\ listsUnchanged
                        /\ UNCHANGED smartMatchSuggestions
                   ELSE /\ setLists(smartAcceptResult(manualMatchSource, suggestion))
                        /\ smartMatchSuggestions' = <<>>
                        /\ outcome' = displayOutcome(matchedTransactions', unmatchedBank',
                                                     unmatchedGL')
        /\ tick
        /\ UNCHANGED <<call, smartRequests, savedReconciliation>>
        /\ UNCHANGED <<bankData, glData, settings, manualMatchSource, selectedMatches,
                       domCandidates, smartTimers, lastRun>>

DenySmartMatch(suggestionIndex) ==
    LET suggestion == At(smartMatchSuggestions, suggestionIndex)
    IN  /\ IF (suggestionIndex + 1) \notin DOMAIN smartMatchSuggestions
           THEN /\ outcome' = "return"
                /\ UNCHANGED <<smartMatchSuggestions, localStorage>>
           ELSE /\ localStorage' = saveSmartMatchLearning(
                                      recordFeedback(suggestion, "denied", "totalDenied", now + 1),
                                      now + 1)
                /\ smartMatchSuggestions' = splice(smartMatchSuggestions, suggestionIndex)
                /\ outcome' = IF smartMatchSuggestions' # <<>> /\ manualMatchSource = NoSource
                              THEN TypeErrorReading("type") ELSE "ok"
        /\ tick
        /\ UNCHANGED <<call, smartRequests, savedReconciliation>>
        /\ UNCHANGED <<bankData, glData, settings, matchedTransactions, unmatchedBank,
                       unmatchedGL, manualMatchSource, selectedMatches, domCandidates,
                       smartTimers, lastRun>>

\* faulty variant of unmatchTransaction: a guard "if (!match) return;" in front
UnmatchIgnoringMissing(matchIdx, confirmed) ==
    LET match == At(matchedTransactions, matchIdx)
        known == (matchIdx + 1) \in DOMAIN matchedTransactions
    IN  /\ IF ~known
           THEN /\ outcome' = "return"
                /\ listsUnchanged
           ELSE IF ~confirmed
           THEN /\ outcome' = "declined"
                /\ listsUnchanged
           ELSE /\ setLists([matched |-> splice(matchedTransactions, matchIdx),
                             unmatchedBank |-> unmatchedBank \o unmatchRestored(match).bank,
                             unmatchedGL |-> unmatchedGL \o unmatchRestored(match).gl])
                /\ outcome' = displayOutcome(matchedTransactions', unmatchedBank', unmatchedGL')
        /\ tick
        /\ UNCHANGED <<call, smartRequests, savedReconciliation>>
        /\ UNCHANGED <<bankData, glData, settings, manualMatchSource, selectedMatches,
                       domCandidates, smartMatchSuggestions, smartTimers, localStorage,
                       lastRun>>

\* unmatchTransaction; confirmed is the answer to its confirm() dialog
UnmatchTransaction(matchIdx, confirmed) ==
    LET match == At(matchedTransactions, matchIdx)
        known == (matchIdx + 1) \in DOMAIN matchedTransactions
        throws == /\ known
                  /\ match.isMultiMatch
                  /\ \/ IsUndefined(match.bankTransaction)
                     \/ (~match.bankTransaction.hasCombinedItems /\ IsUndefined(match.glEntry))
    IN  /\ IF ~known \/ throws
           THEN /\ outcome' = (IF known THEN TypeErrorReading("combinedItems")
                                  ELSE TypeErrorReading("isMultiMatch"))
                /\ listsUnchanged
           ELSE IF ~confirmed
           THEN /\ outcome' = "declined"
                /\ listsUnchanged
           ELSE /\ setLists([matched |-> splice(matchedTransactions, matchIdx),
                             unmatchedBank |-> unmatchedBank \o unmatchRestored(match).bank,
                             unmatchedGL |-> unmatchedGL \o unmatchRestored(match).gl])
                /\ outcome' = displayOutcome(matchedTransactions', unmatchedBank', unmatchedGL')
        /\ tick
        /\ UNCHANGED <<call, smartRequests, savedReconciliation>>
        /\ UNCHANGED <<bankData, glData, settings, manualMatchSource, selectedMatches,
                       domCandidates, smartMatchSuggestions, smartTimers, localStorage, lastRun>>

\* saveReconciliation(name, description)
SaveReconciliation ==
    /\ savedReconciliation' = savedData
    /\ outcome' = "ok"
    /\ tick
    /\ UNCHANGED <<call, smartRequests>>
    /\ UNCHANGED <<bankData, glData, settings, matchedTransactions, unmatchedBank,
                   unmatchedGL, manualMatchSource, selectedMatches, domCandidates,
                   smartMatchSuggestions, smartTimers, localStorage, lastRun>>

\* loadReconciliationFromHistory(id): the request fails when nothing is stored
\* under the id
LoadReconciliationFromHistory ==
    /\ IF ~savedReconciliation.saved
       THEN /\ outcome' = "Not found"
            /\ listsUnchanged
            /\ UNCHANGED settings
       ELSE /\ matchedTransactions' \in Orderings(savedReconciliation.matchedTransactions)
            /\ unmatchedBank' \in Orderings(savedReconciliation.unmatchedBank)
            /\ unmatchedGL' \in Orderings(savedReconciliation.unmatchedGL)
            /\ settings' = savedReconciliation.settings
            /\ outcome' = displayOutcome(matchedTransactions', unmatchedBank', unmatchedGL')
    /\ tick
    /\ UNCHANGED <<call, smartRequests, savedReconciliation>>
    /\ UNCHANGED <<bankData, glData, manualMatchSource, selectedMatches, domCandidates,
                   smartMatchSuggestions, smartTimers, localStorage, lastRun>>

\* faulty variant of reset: it also removes the learning key from localStorage
ResetForgettingLearning(confirmed) ==
    /\ IF confirmed
       THEN /\ bankData' = <<>>
            /\ glData' = <<>>
            /\ matchedTransactions' = <<>>
            /\ unmatchedBank' = <<>>
            /\ unmatchedGL' = <<>>
            /\ smartMatchSuggestions' = <<>>
            /\ localStorage' = NoLearningData
            /\ lastRun' = NoRun
            /\ outcome' = "ok"
       ELSE /\ outcome' = "declined"
            /\ UNCHANGED <<bankData, glData, matchedTransactions, unmatchedBank,
                           unmatchedGL, smartMatchSuggestions, localStorage, lastRun>>
    /\ tick
    /\ UNCHANGED <<call, smartRequests, savedReconciliation>>
    /\ UNCHANGED <<settings, manualMatchSource, selectedMatches, domCandidates,
                   smartTimers>>

\* reset; confirmed is the answer to its confirm() dialog
Reset(confirmed) ==
    /\ IF confirmed
       THEN /\ bankData' = <<>>
            /\ glData' = <<>>
            /\ matchedTransactions' = <<>>
            /\ unmatchedBank' = <<>>
            /\ unmatchedGL' = <<>>
            /\ smartMatchSuggestions' = <<>>
            /\ lastRun' = NoRun
            /\ outcome' = "ok"
       ELSE /\ outcome' = "declined"
            /\ UNCHANGED <<bankData, glData, matchedTransactions, unmatchedBank,
                           unmatchedGL, smartMatchSuggestions, lastRun>>
    /\ tick
    /\ UNCHANGED <<call, smartRequests, savedReconciliation>>
    /\ UNCHANGED <<settings, manualMatchSource, selectedMatches, domCandidates,
                   smartTimers, localStorage>>

-----------------------------------------------------------------------------
(* Specification *)

SourceTypes == {"bank", "gl"}

Next ==
    \/ \E data \in BankInputs : LoadBank(data)
    \/ \E data \in GLInputs : LoadGL(data)
    \/ \E d \in DateRanges : SetDateRange(d)
    \/ PerformReconciliation
    \/ \E sourceType \in SourceTypes :
          \E sourceIdx \in 0..Len(sourceList(sourceType)) :
             ShowManualMatch(sourceType, sourceIdx)
    \/ \E targetIdx \in 0..(domCandidates.rendered - 1) : SelectManualMatch(targetIdx)
    \/ ClearSelection
    \/ CloseManualMatchModal
    \/ ConfirmManualMatch
    \/ ConfirmMultiMatch
    \/ \E customData \in CustomInputs : CreateCustomMatch(customData)
    \/ GenerateSmartMatchSuggestions
    \/ FireSmartMatchTimer
    \/ \E suggestionIndex \in 0..Len(smartMatchSuggestions) : AcceptSmartMatch(suggestionIndex)
    \/ \E suggestionIndex \in 0..Len(smartMatchSuggestions) : DenySmartMatch(suggestionIndex)
    \/ \E matchIdx \in 0..Len(matchedTransactions) :
          \E confirmed \in BOOLEAN : UnmatchTransaction(matchIdx, confirmed)
    \/ \E confirmed \in BOOLEAN : Reset(confirmed)

\* the later session, followed for PersistedTime handler runs
NextPersisted == now < PersistedTime /\ Next

SpecPersisted == InitPersisted /\ [][NextPersisted]_vars

Spec == Init /\ [][Next]_vars

-----------------------------------------------------------------------------
(* The automatic matcher on check numbers, dates and tolerances *)

\* values of the amountTolerance field: 0.00 and 1.00
Tolerances == {0, 100}

\* the change handler of the amountTolerance input
SetAmountTolerance(t) ==
    /\ settings' = [settings EXCEPT !.amountTolerance = t]
    /\ lastRun' = IF t = settings.amountTolerance THEN lastRun ELSE NoRun
    /\ outcome' = "ok"
    /\ tick
    /\ UNCHANGED <<call, smartRequests, savedReconciliation>>
    /\ UNCHANGED <<bankData, glData, matchedTransactions, unmatchedBank, unmatchedGL,
                   manualMatchSource, selectedMatches, domCandidates,
                   smartMatchSuggestions, smartTimers, localStorage>>

\* bank rows of $500.00: with check number 4412, with a check number that has no
\* digit, and without check number
CheckTx ==
    BankTransaction("c1", Day15, <<"C","h","e","c","k"," ","4","4","1","2">>, 50000,
                    <<"4","4","1","2">>)

NoDigitTx == BankTransaction("c2", Day15, <<"F","e","e">>, 50000, <<"N","/","A">>)

PlainTx == BankTransaction("c3", Day15, <<"R","e","n","t">>, 50000, <<>>)

MatcherBankInputs ==
    { <<CheckTx>>, <<NoDigitTx>>, <<PlainTx>>, <<PlainTx, CheckTx>> }

\* GL rows: account 4412, account 44-12, account 1001, each of $500.00, and
\* account 1001 of $500.50
Acct4412 == GLEntry("a1", <<"4","4","1","2">>, <<"f","e","e">>, NoDate, 50000, <<>>)

AcctDashed == GLEntry("a2", <<"4","4","-","1","2">>, <<"f","e","e">>, NoDate, 50000, <<>>)

Acct1001 == GLEntry("a3", <<"1","0","0","1">>, <<"r","e","n","t">>, NoDate, 50000, <<>>)

Acct1001Near == GLEntry("a4", <<"1","0","0","1">>, <<"r","e","n","t">>, NoDate, 50050, <<>>)

MatcherGLInputs ==
    { <<Acct4412>>, <<AcctDashed>>, <<Acct1001>>, <<Acct1001Near>>,
      <<Acct1001, Acct4412>>, <<Acct4412, Acct1001>> }

NextMatcher ==
    \/ \E data \in MatcherBankInputs : LoadBank(data)
    \/ \E data \in MatcherGLInputs : LoadGL(data)
    \/ \E d \in DateRanges : SetDateRange(d)
    \/ \E t \in Tolerances : SetAmountTolerance(t)
    \/ PerformReconciliation

SpecMatcher == Init /\ [][NextMatcher]_vars

-----------------------------------------------------------------------------
(* Scoring helpers and parsers called on their own *)

\* a call of helper fn on args that returned value. The helpers keep no state, so a
\* behaviour follows one call.
returns(fn, args, value) ==
    /\ call = NoCall
    /\ call' = [fn |-> fn, args |-> args, value |-> value]

sessionUntouched ==
    UNCHANGED <<bankData, glData, settings, matchedTransactions, unmatchedBank,
                unmatchedGL, manualMatchSource, selectedMatches, domCandidates,
                smartMatchSuggestions, smartTimers, localStorage, now, outcome,
                lastRun, smartRequests, savedReconciliation>>

\* source amounts in cents, and the differences target - source tried with each
SourceAmounts == {-10000, 0, 1, 50, 10000, 50025}

AmountDeltas == {-1001, -501, -100, -2, -1, 0, 1, 2, 5, 100, 101, 500, 501, 1000, 1001}

CallAmountScore(sourceAmount, targetAmount) ==
    /\ returns("calculateAmountScore", <<sourceAmount, targetAmount>>,
               calculateAmountScore(sourceAmount, targetAmount))
    /\ sessionUntouched

\* longest target list handed to findSubsetMatches
MaxTargets == 4

SubsetSources == {0, 25000, 50025}

SubsetAmounts == {0, 10000, 15000, 35025, 35200}

\* the k-th target of a list, by its amount
SubsetTarget(k, amount) ==
    GLEntry("t" \o ToString(k), <<>>, <<>>, NoDate, amount, <<>>)

SubsetTargets ==
    UNION { { [k \in 1..n |-> SubsetTarget(k, amounts[k])] :
                amounts \in [1..n -> SubsetAmounts] } : n \in 0..MaxTargets }

CallFindSubsetMatches(sourceAmount, targets) ==
    /\ returns("findSubsetMatches", <<sourceAmount, targets>>,
               findSubsetMatches(sourceAmount, targets))
    /\ sessionUntouched

-----------------------------------------------------------------------------
(* Amount parsing in the browser *)

\* the characters of a string literal
Chars(s) == [i \in 1..Len(s) |-> SubSeq(s, i, i)]

DigitSeq == <<"0", "1", "2", "3", "4", "5", "6", "7", "8", "9">>

digitValue(c) == (CHOOSE k \in 1..10 : DigitSeq[k] = c) - 1

\* the number a run of decimal digits denotes
RECURSIVE digitsValue(_)
digitsValue(ds) ==
    IF ds = <<>> THEN 0
    ELSE digitsValue(SubSeq(ds, 1, Len(ds) - 1)) * 10 + digitValue(ds[Len(ds)])

\* a JavaScript number with a finite decimal expansion: mantissa / 10^scale, kept
\* without trailing zeros of the fraction so that equal numbers are equal records
RECURSIVE Number(_, _)
Number(mantissa, scale) ==
    IF scale > 0 /\ mantissa % 10 = 0 THEN Number(mantissa \div 10, scale - 1)
    ELSE [nan |-> FALSE, mantissa |-> mantissa, scale |-> scale]

NaN == [nan |-> TRUE, mantissa |-> 0, scale |-> 0]

\* -Math.abs(amount)
negativeAbs(amount) == [amount EXCEPT !.mantissa = -Abs(amount.mantissa)]

\* the longest prefix of s made of digits
RECURSIVE digitRun(_)
digitRun(s) ==
    IF s # <<>> /\ Head(s) \in DigitChars THEN <<Head(s)>> \o digitRun(Tail(s)) ELSE <<>>

\* the fraction digits parseFloat reads after the integer digits
fractionRun(rest) ==
    IF rest # <<>> /\ Head(rest) = "." THEN digitRun(Tail(rest)) ELSE <<>>

\* parseFloat of integer digits and fraction digits already read
floatOf(int, frac) ==
    IF int = <<>> /\ frac = <<>> THEN NaN
    ELSE Number(digitsValue(int \o frac), Len(frac))

\* parseFloat on a string of digits and dots: the longest numeric prefix
unsignedFloat(str) ==
    floatOf(digitRun(str), fractionRun(SubSeq(str, Len(digitRun(str)) + 1, Len(str))))

CurrencySymbols == {"$", "€", "£", "¥", "₹"}

\* s.replace(/[chars]/g, '')
removeAll(s, chars) == SelectSeq(s, LAMBDA c : c \notin chars)

\* (s.match(/c/g) || []).length
countOf(s, c) == Len(SelectSeq(s, LAMBDA x : x = c))

\* s.lastIndexOf(c), 0-based, -1 when c does not occur
lastIndexOf(s, c) ==
    IF \E i \in DOMAIN s : s[i] = c
    THEN (CHOOSE i \in DOMAIN s : s[i] = c /\ \A j \in DOMAIN s : s[j] = c => j <= i) - 1
    ELSE -1

\* s.indexOf(c), 0-based, -1 when c does not occur
indexOf(s, c) ==
    IF \E i \in DOMAIN s : s[i] = c
    THEN (CHOOSE i \in DOMAIN s : s[i] = c /\ \A j \in DOMAIN s : s[j] = c => i <= j) - 1
    ELSE -1

\* s.replace(c, d) for one-character strings: the first occurrence only
replaceFirst(s, c, d) ==
    IF indexOf(s, c) = -1 THEN s ELSE [s EXCEPT ![indexOf(s, c) + 1] = d]

\* str.split(',')[1]: what stands between the first comma and the next one
afterComma(str) ==
    LET rest == SubSeq(str, indexOf(str, ",") + 2, Len(str))
    IN  IF indexOf(rest, ",") = -1 THEN rest ELSE SubSeq(rest, 1, indexOf(rest, ","))

hasParentheses(str) == Len(str) >= 2 /\ str[1] = "(" /\ str[Len(str)] = ")"

\* str.slice(1, -1) when the string is wrapped in parentheses
withoutParentheses(str) ==
    IF hasParentheses(str) THEN SubSeq(str, 2, Len(str) - 1) ELSE str

\* the choice of the decimal separator
decimalSeparated(str) ==
    IF lastIndexOf(str, ",") > lastIndexOf(str, ".")
    THEN replaceFirst(removeAll(str, {"."}), ",", ".")
    ELSE IF lastIndexOf(str, ".") > lastIndexOf(str, ",") THEN removeAll(str, {","})
    ELSE IF countOf(str, ",") > 0 /\ countOf(str, ".") = 0
         THEN (IF Len(afterComma(str)) = 2 THEN replaceFirst(str, ",", ".")
               ELSE removeAll(str, {","}))
    ELSE str

\* str.replace(/[^0-9.-]/g, '')
numericChars(str) == SelectSeq(str, LAMBDA c : c \in DigitChars \cup {".", "-"})

\* faulty variant of signedAmount: parentheses and a minus sign cancel each other
signTogglesPerMark(cleaned, parenthesised) ==
    LET amount == unsignedFloat(removeAll(cleaned, {"-"}))
        marks == countOf(cleaned, "-") + (IF parenthesised THEN 1 ELSE 0)
    IN  IF amount.nan THEN Number(0, 0)
        ELSE IF marks % 2 = 1 THEN negativeAbs(amount)
        ELSE amount

\* the number parsed from the cleaned string, with the sign applied
signedAmount(cleaned, parenthesised) ==
    LET amount == unsignedFloat(removeAll(cleaned, {"-"}))
    IN  IF amount.nan THEN Number(0, 0)
        ELSE IF countOf(cleaned, "-") % 2 = 1 \/ parenthesised THEN negativeAbs(amount)
        ELSE amount

\* the string after currency symbols and whitespace are removed
withoutCurrency(str) == removeAll(removeAll(str, CurrencySymbols), {" "})

ZeroWords == {Chars("zero"), Chars("none"), Chars("n/a"), Chars("-")}

parseAmount(value) ==
    IF value = <<>> \/ trim(value) = <<>> THEN Number(0, 0)
    ELSE IF toLowerCase(trim(value)) \in ZeroWords THEN Number(0, 0)
    ELSE signedAmount(
            numericChars(decimalSeparated(withoutParentheses(withoutCurrency(trim(value))))),
            hasParentheses(withoutCurrency(trim(value))))

\* digit groups of an amount and the separators between them
DigitGroups == {"1", "12", "234", "56", "50"}

Separators == {",", "."}

\* amounts of one, two and three digit groups
AmountBodies ==
    { Chars(a) : a \in DigitGroups }
      \cup { Chars(a \o s \o b) : a, b \in DigitGroups, s \in Separators }
      \cup { Chars(a \o s \o b \o t \o c) :
               a, b, c \in DigitGroups, s, t \in Separators }

\* the ways an amount is written around its digits
Plain(body) == body

Parenthesised(body) == <<"(">> \o body \o <<")">>

ParenthesisedCurrency(body) == <<"(", "$">> \o body \o <<")">>

CurrencyParenthesised(body) == <<"$", " ", "(">> \o body \o <<")", " ">>

ParenthesisedMinus(body) == <<"(", "-">> \o body \o <<")">>

Minus(body) == <<"-">> \o body

Currency(body) == <<"$">> \o body

AmountStrings ==
    UNION { { Plain(b), Parenthesised(b), ParenthesisedCurrency(b),
              CurrencyParenthesised(b), ParenthesisedMinus(b), Minus(b),
              Currency(b) } : b \in AmountBodies }
      \cup ZeroWords \cup {<<>>, Chars("()"), Chars("abc")}

ParseAmount(value) ==
    /\ returns("parseAmount", <<value>>, parseAmount(value))
    /\ sessionUntouched

-----------------------------------------------------------------------------
(* Amount parsing on the server *)

ONES ==
    [zero |-> 0, one |-> 1, two |-> 2, three |-> 3, four |-> 4, five |-> 5, six |-> 6,
     seven |-> 7, eight |-> 8, nine |-> 9, ten |-> 10, eleven |-> 11, twelve |-> 12,
     thirteen |-> 13, fourteen |-> 14, fifteen |-> 15, sixteen |-> 16,
     seventeen |-> 17, eighteen |-> 18, nineteen |-> 19]

TENS ==
    [twenty |-> 20, thirty |-> 30, forty |-> 40, fourty |-> 40, fifty |-> 50,
     sixty |-> 60, seventy |-> 70, eighty |-> 80, ninety |-> 90]

\* SCALES without 'hundred', which the loop handles first; a trillion is written as
\* a product because it is beyond the integers of the checker
ScaleWords == {"thousand", "million", "billion", "trillion"}

SCALES(w) ==
    CASE w = "thousand" -> 1000
      [] w = "million" -> 1000000
      [] w = "billion" -> 1000000000
      [] w = "trillion" -> 1000000 * 1000000

ORDINAL_MAP ==
    [first |-> 1, second |-> 2, third |-> 3, fourth |-> 4, fifth |-> 5, sixth |-> 6,
     seventh |-> 7, eighth |-> 8, ninth |-> 9, tenth |-> 10, eleventh |-> 11,
     twelfth |-> 12, thirteenth |-> 13, fourteenth |-> 14, fifteenth |-> 15,
     sixteenth |-> 16, seventeenth |-> 17, eighteenth |-> 18, nineteenth |-> 19,
     twentieth |-> 20, thirtieth |-> 30, fortieth |-> 40, fiftieth |-> 50,
     sixtieth |-> 60, seventieth |-> 70, eightieth |-> 80, ninetieth |-> 90,
     hundredth |-> 100, thousandth |-> 1000, millionth |-> 1000000]

\* the string literal with the characters chars
RECURSIVE Str(_)
Str(chars) == IF chars = <<>> THEN "" ELSE Head(chars) \o Str(Tail(chars))

\* the characters \w of a regular expression
WordChars == LowerChars \cup {UpperSeq[k] : k \in 1..26} \cup DigitChars \cup {"_"}

startsWith(s, prefix) == Len(s) >= Len(prefix) /\ SubSeq(s, 1, Len(prefix)) = prefix

\* s.replace(/^prefix\s+/, '') for minSpaces = 1 and s.replace(/^prefix\s*/, '') for 0
withoutPrefix(s, prefix, minSpaces) ==
    IF /\ startsWith(s, prefix)
       /\ Len(s) - Len(prefix) - Len(trimLeft(SubSeq(s, Len(prefix) + 1, Len(s))))
            >= minSpaces
    THEN trimLeft(SubSeq(s, Len(prefix) + 1, Len(s)))
    ELSE s

\* the word w stands at 1-based position i of s between two word boundaries
wordAt(s, w, i) ==
    /\ i + Len(w) - 1 <= Len(s)
    /\ SubSeq(s, i, i + Len(w) - 1) = w
    /\ i = 1 \/ s[i - 1] \notin WordChars
    /\ i + Len(w) > Len(s) \/ s[i + Len(w)] \notin WordChars

\* s.replace(/\bw\b/g, '') from position i on
RECURSIVE removeWord(_, _, _)
removeWord(s, w, i) ==
    IF i > Len(s) THEN <<>>
    ELSE IF wordAt(s, w, i) THEN removeWord(s, w, i + Len(w))
    ELSE <<s[i]>> \o removeWord(s, w, i + 1)

\* /\bdollars?\b/ and /\bcents?\b/: the plural or the singular as a whole word
removeWordOrPlural(s, w) == removeWord(removeWord(s, w \o <<"s">>, 1), w, 1)

\* s.replace(/[,\-]/g, ' ')
blankCommasAndHyphens(s) ==
    [i \in 1..Len(s) |-> IF s[i] \in {",", "-"} THEN " " ELSE s[i]]

\* the filler words removed and the white space normalised
withoutFillers(normalized) ==
    trim(collapseSpaces(blankCommasAndHyphens(
        removeWordOrPlural(removeWordOrPlural(removeWord(normalized, Chars("and"), 1),
                                              Chars("dollar")), Chars("cent")))))

\* the three replacements applied to a negative text, in this order
withoutNegativePrefix(normalized) ==
    withoutPrefix(withoutPrefix(withoutPrefix(normalized, Chars("negative"), 1),
                                Chars("minus"), 1), <<"-">>, 0)

negativePrefixed(normalized) ==
    \/ startsWith(normalized, Chars("negative "))
    \/ startsWith(normalized, Chars("minus "))
    \/ startsWith(normalized, <<"-">>)

\* /^[\d.]+$/.test(s)
isNumericString(s) == s # <<>> /\ \A i \in DOMAIN s : s[i] \in DigitChars \cup {"."}

\* /^\d+$/.test(word)
isDigits(word) == word # <<>> /\ \A i \in DOMAIN word : word[i] \in DigitChars

\* word.match(/^(\d+)(?:st|nd|rd|th)$/)
isOrdinalDigits(word) ==
    /\ Len(word) >= 3
    /\ isDigits(SubSeq(word, 1, Len(word) - 2))
    /\ SubSeq(word, Len(word) - 1, Len(word))
         \in {Chars("st"), Chars("nd"), Chars("rd"), Chars("th")}

\* normalized.split(' ').filter(w => w.length > 0)
textWords(normalized) == SelectSeq(splitSpaces(normalized, <<>>), LAMBDA w : w # <<>>)

\* one round of the loop over the words; no word holds a hyphen (they are blanked
\* before the split), so the branch for hyphenated tens is never taken
wordStep(word, acc) ==
    IF Str(word) \in DOMAIN ONES
    THEN [acc EXCEPT !.current = @ + ONES[Str(word)], !.foundNumber = TRUE]
    ELSE IF Str(word) \in DOMAIN TENS
    THEN [acc EXCEPT !.current = @ + TENS[Str(word)], !.foundNumber = TRUE]
    ELSE IF Str(word) = "hundred"
    THEN [acc EXCEPT !.current = IF @ = 0 THEN 100 ELSE @ * 100, !.foundNumber = TRUE]
    ELSE IF Str(word) \in ScaleWords
    THEN [result |-> acc.result
                       + (IF acc.current = 0 THEN 1 ELSE acc.current) * SCALES(Str(word)),
          current |-> 0, foundNumber |-> TRUE]
    ELSE IF isOrdinalDigits(word)
    THEN [acc EXCEPT !.current = @ + digitsValue(SubSeq(word, 1, Len(word) - 2)),
                     !.foundNumber = TRUE]
    ELSE IF isDigits(word)
    THEN [acc EXCEPT !.current = @ + digitsValue(word), !.foundNumber = TRUE]
    ELSE acc

RECURSIVE wordLoop(_, _)
wordLoop(words, acc) ==
    IF words = <<>> THEN acc ELSE wordLoop(Tail(words), wordStep(Head(words), acc))

\* null, and a number returned
NoNumber == [found |-> FALSE, number |-> Number(0, 0)]

Found(number) == [found |-> TRUE, number |-> number]

\* isNegative ? -num : num
signed(isNegative, number) ==
    IF isNegative THEN [number EXCEPT !.mantissa = -number.mantissa] ELSE number

\* the end of the loop: result += current, null when no number word was found
loopValue(acc, isNegative) ==
    IF acc.foundNumber THEN Found(signed(isNegative, Number(acc.result + acc.current, 0)))
    ELSE NoNumber

\* parseTextNumber after the text is normalised and the filler words are removed
textNumber(normalized, isNegative) ==
    IF isNumericString(normalized)
    THEN (IF unsignedFloat(normalized).nan THEN NoNumber
          ELSE Found(signed(isNegative, unsignedFloat(normalized))))
    ELSE IF Str(normalized) \in DOMAIN ORDINAL_MAP
    THEN Found(signed(isNegative, Number(ORDINAL_MAP[Str(normalized)], 0)))
    ELSE loopValue(wordLoop(textWords(normalized),
                            [result |-> 0, current |-> 0, foundNumber |-> FALSE]),
                   isNegative)

\* the text in lower case, trimmed, without its negative prefix when it has one
unprefixed(normalized) ==
    IF negativePrefixed(normalized) THEN withoutNegativePrefix(normalized)
    ELSE normalized

parseTextNumber(text) ==
    IF text = <<>> THEN NoNumber
    ELSE textNumber(withoutFillers(unprefixed(trim(toLowerCase(text)))),
                    negativePrefixed(trim(toLowerCase(text))))

\* parseFloat on a string that may start with a sign
signedFloat(str) ==
    IF str # <<>> /\ Head(str) = "-" THEN signed(TRUE, unsignedFloat(Tail(str)))
    ELSE IF str # <<>> /\ Head(str) = "+" THEN unsignedFloat(Tail(str))
    ELSE unsignedFloat(str)

ServerZeroWords ==
    {<<>>, Chars("n/a"), Chars("na"), Chars("null"), Chars("none"), Chars("-"),
     Chars("--")}

\* accounting parentheses turned into a minus sign
parenthesesAsMinus(cleaned) ==
    IF hasParentheses(cleaned) THEN <<"-">> \o SubSeq(cleaned, 2, Len(cleaned) - 1)
    ELSE cleaned

\* the standard numeric parsing parseAmount falls back to
numericFallback(trimmed) ==
    LET result == signedFloat(removeAll(
                      parenthesesAsMinus(removeAll(trimmed, CurrencySymbols \cup {" "})),
                      {","}))
    IN  IF result.nan THEN Number(0, 0) ELSE result

\* parseAmount of textNumberParser.js on a string
serverParseAmount(value) ==
    IF toLowerCase(trim(value)) \in ServerZeroWords THEN Number(0, 0)
    ELSE IF parseTextNumber(trim(value)).found THEN parseTextNumber(trim(value)).number
    ELSE numericFallback(trim(value))

\* number words, and the texts of up to MaxWords of them
NumberWords == {"one", "two", "twelve", "twenty", "hundred", "thousand"}

MaxWords == 3

RECURSIVE joinWords(_)
joinWords(words) ==
    IF words = <<>> THEN <<>>
    ELSE IF Len(words) = 1 THEN Chars(words[1])
    ELSE Chars(words[1]) \o <<" ">> \o joinWords(Tail(words))

WordLists == UNION { [1..n -> NumberWords] : n \in 1..MaxWords }

NegativePrefixes == { <<>>, Chars("negative "), Chars("minus "), Chars("-") }

NumberTexts ==
    { prefix \o joinWords(words) : prefix \in NegativePrefixes, words \in WordLists }
      \cup { Chars("one thousand two hundred"), Chars("One Thousand Two Hundred"),
             Chars("one hundred and five dollars"), Chars("two billion"),
             Chars("one million two hundred thousand"),
             Chars("twenty-one"), Chars("third"), Chars("3rd"), Chars("12"),
             Chars("1234.56"), Chars("1,234.56"), Chars("rent"), <<>> }

ParseTextNumber(text) ==
    /\ returns("parseTextNumber", <<text>>, parseTextNumber(text))
    /\ sessionUntouched

ServerParseAmount(value) ==
    /\ returns("serverParseAmount", <<value>>, serverParseAmount(value))
    /\ sessionUntouched

-----------------------------------------------------------------------------
(* Dates of spreadsheet cells *)

\* a cell value: a number, a string, or nothing
NumberCell(number) == [type |-> "number", number |-> number, string |-> <<>>]

StringCell(string) == [type |-> "string", number |-> NaN, string |-> string]

EmptyCell == [type |-> "undefined", number |-> NaN, string |-> <<>>]

RECURSIVE pow10(_)
pow10(n) == IF n = 0 THEN 1 ELSE 10 * pow10(n - 1)

\* Math.floor of a finite number, and the digits of its fraction
floorOf(number) ==
    IF number.mantissa >= 0 THEN number.mantissa \div pow10(number.scale)
    ELSE -((-number.mantissa + pow10(number.scale) - 1) \div pow10(number.scale))

fractionOf(number) == number.mantissa - floorOf(number) * pow10(number.scale)

\* number > k and number < k for an integer k; false for NaN
greaterThan(number, k) == ~number.nan /\ number.mantissa > k * pow10(number.scale)

lessThan(number, k) == ~number.nan /\ number.mantissa < k * pow10(number.scale)

\* the day number of a civil date, counted from 1970-01-01
daysFromCivil(year, month, day) ==
    LET y   == IF month <= 2 THEN year - 1 ELSE year
        era == (IF y >= 0 THEN y ELSE y - 399) \div 400
        yoe == y - era * 400
        mp  == IF month > 2 THEN month - 3 ELSE month + 9
        doy == (153 * mp + 2) \div 5 + day - 1
        doe == yoe * 365 + yoe \div 4 - yoe \div 100 + doy
    IN  era * 146097 + doe - 719468

\* a Date: the civil date of day number days and the milliseconds into that day,
\* in a time zone whose offset never changes
DateOfDays(days, ms) ==
    LET z   == days + 719468
        era == (IF z >= 0 THEN z ELSE z - 146096) \div 146097
        doe == z - era * 146097
        yoe == (doe - doe \div 1460 + doe \div 36524 - doe \div 146096) \div 365
        doy == doe - (365 * yoe + yoe \div 4 - yoe \div 100)
        mp  == (5 * doy + 2) \div 153
        m   == IF mp < 10 THEN mp + 3 ELSE mp - 9
    IN  [kind |-> "date", year |-> yoe + era * 400 + (IF m <= 2 THEN 1 ELSE 0),
         month |-> m, day |-> doy - (153 * mp + 2) \div 5 + 1, ms |-> ms]

MsPerDay == 24 * 60 * 60 * 1000

NoDateValue == [kind |-> "null", year |-> 0, month |-> 0, day |-> 0, ms |-> 0]

\* new Date(year, monthIndex, day): years 0..99 are years of the 20th century and
\* months and days beyond their range carry over
NewDate(year, monthIndex, day) ==
    LET full == IF year >= 0 /\ year <= 99 THEN 1900 + year ELSE year
        carry == (IF monthIndex >= 0 THEN monthIndex ELSE monthIndex - 11) \div 12
    IN  DateOfDays(daysFromCivil(full + carry, monthIndex - 12 * carry + 1, 1) + day - 1, 0)

\* s.split(sep), the part being read in cur
RECURSIVE splitOn(_, _, _)
splitOn(s, sep, cur) ==
    IF s = <<>> THEN <<cur>>
    ELSE IF Head(s) = sep THEN <<cur>> \o splitOn(Tail(s), sep, <<>>)
    ELSE splitOn(Tail(s), sep, cur \o <<Head(s)>>)

\* parts are three runs of digits with lengths in the given ranges
digitParts(parts, first, second, third) ==
    /\ Len(parts) = 3
    /\ \A k \in 1..3 : \A i \in DOMAIN parts[k] : parts[k][i] \in DigitChars
    /\ Len(parts[1]) \in first /\ Len(parts[2]) \in second /\ Len(parts[3]) \in third

\* the three patterns: M/D/YY to MM/DD/YYYY, YYYY-MM-DD, M-D-YY to MM-DD-YYYY
isValidDate(dateStr) ==
    /\ trim(dateStr) # <<>>
    /\ \/ digitParts(splitOn(trim(dateStr), "/", <<>>), 1..2, 1..2, 2..4)
       \/ digitParts(splitOn(trim(dateStr), "-", <<>>), {4}, {2}, {2})
       \/ digitParts(splitOn(trim(dateStr), "-", <<>>), 1..2, 1..2, 2..4)

InvalidDate == [NoDateValue EXCEPT !.kind = "invalid"]

\* the host the page runs in: the offset of its time zone from UTC in minutes, and
\* what its Date constructor makes of a month-day-year string with dashes (the
\* format is not one the language defines)
Host(offset, dashed) == [offset |-> offset, dashed |-> dashed]

Hosts == { Host(offset, dashed) : offset \in {-300, 0, 60}, dashed \in {"local", "invalid"} }

\* the local date of midnight UTC at the start of day number days
UTCMidnight(days, host) ==
    IF host.offset >= 0 THEN DateOfDays(days, host.offset * 60000)
    ELSE DateOfDays(days - 1, MsPerDay + host.offset * 60000)

\* new Date(dateStr): year-month-day is a date-only form, read as UTC; a
\* month-day-year string is read as local time or not at all; any other string
\* gives an invalid date
DateOfString(parts, host) ==
    IF digitParts(parts, {4}, {2}, {2})
    THEN (IF digitsValue(parts[2]) \in 1..12 /\ digitsValue(parts[3]) \in 1..31
          THEN UTCMidnight(daysFromCivil(digitsValue(parts[1]), digitsValue(parts[2]), 1)
                             + digitsValue(parts[3]) - 1, host)
          ELSE InvalidDate)
    ELSE IF digitParts(parts, 1..2, 1..2, 2..4) /\ host.dashed = "local"
    THEN NewDate(digitsValue(parts[3]), digitsValue(parts[1]) - 1, digitsValue(parts[2]))
    ELSE InvalidDate

slashDate(parts) ==
    NewDate(digitsValue(digitRun(parts[3])), digitsValue(digitRun(parts[1])) - 1,
            digitsValue(digitRun(parts[2])))

parseDate(dateStr, host) ==
    IF dateStr = <<>> THEN NoDateValue
    ELSE IF Len(splitOn(dateStr, "/", <<>>)) = 3 THEN slashDate(splitOn(dateStr, "/", <<>>))
    ELSE DateOfString(splitOn(dateStr, "-", <<>>), host)

\* date.toLocaleDateString('en-US'): month/day/year without leading zeros
formatDate(date) ==
    IF date.kind = "null" THEN <<>>
    ELSE IF date.kind = "invalid" THEN Chars("Invalid Date")
    ELSE Chars(ToString(date.month)) \o <<"/">> \o Chars(ToString(date.day))
           \o <<"/">> \o Chars(ToString(date.year))

\* new Date(1899, 11, 30)
excelEpoch == daysFromCivil(1899, 12, 30)

\* the serial number test and the date excelEpoch + value days
serialDate(number) ==
    IF greaterThan(number, 30000) /\ lessThan(number, 60000)
    THEN DateOfDays(excelEpoch + floorOf(number),
                    (fractionOf(number) * MsPerDay) \div pow10(number.scale))
    ELSE NoDateValue

\* !value
falsy(value) ==
    \/ value.type = "undefined"
    \/ value.type = "string" /\ value.string = <<>>
    \/ value.type = "number" /\ (value.number.nan \/ value.number.mantissa = 0)

parseExcelDate(value, host) ==
    IF falsy(value) THEN NoDateValue
    ELSE IF value.type = "string"
    THEN (IF isValidDate(value.string) THEN parseDate(value.string, host)
          ELSE serialDate(signedFloat(trimLeft(value.string))))
    ELSE serialDate(value.number)

\* serial numbers around the two limits, written as numbers and as strings
SerialTexts ==
    {"0", "1", "29999", "29999.9", "30000", "30000.5", "30001", "44927", "45000",
     "45000.5", "45291", "45292", "59999", "59999.9", "60000", "60001", "-45000"}

OtherTexts == {"", "abc", " 45000", "03/15/2023", "3/15/23", "2023-03-15", "03-15-2023"}

CellValues ==
    { NumberCell(signedFloat(Chars(t))) : t \in SerialTexts }
      \cup { StringCell(Chars(t)) : t \in SerialTexts \cup OtherTexts }
      \cup { NumberCell(NaN), EmptyCell }

ParseExcelDate(value, host) ==
    /\ returns("parseExcelDate", <<value, host>>, parseExcelDate(value, host))
    /\ sessionUntouched

\* date strings of the accepted patterns, with days and months in and out of range
DateTexts ==
    {"3/15/23", "03/15/2023", "3/5/2023", "12/31/1999", "2/29/2024", "1/1/00",
     "2023-03-15", "2024-01-01", "03-15-2023", "3-15-23", "13/45/2023", "3/15/202",
     "2023-02-30", "15/03/2023"}

\* parseDate, formatDate of its result, and parseDate of that text
DateRoundTrip(dateStr, host) ==
    /\ returns("formatDate", <<dateStr, host>>,
               [parsed |-> parseDate(dateStr, host),
                text |-> formatDate(parseDate(dateStr, host)),
                again |-> parseDate(formatDate(parseDate(dateStr, host)), host)])
    /\ sessionUntouched

-----------------------------------------------------------------------------
(* Column detection of the bank file *)

BankRoles ==
    {"transactionNumber", "date", "description", "memo", "debit", "credit", "amount",
     "balance", "checkNumber", "fees"}

\* the map before the headers are read: every role at -1
NoColumns == [role \in BankRoles |-> -1]

has(h, word) == includes(h, Chars(word))

\* a variant of the chain that sends every header holding 'amount' to the amount role
roleAmountFirst(h) ==
    IF has(h, "date") /\ ~has(h, "update") THEN "date"
    ELSE IF has(h, "transaction") /\ has(h, "number") THEN "transactionNumber"
    ELSE IF has(h, "amount") \/ h = Chars("amt") THEN "amount"
    ELSE IF h = Chars("description") \/ has(h, "desc") THEN "description"
    ELSE IF h = Chars("memo") \/ has(h, "note") \/ has(h, "comment") THEN "memo"
    ELSE IF has(h, "debit") \/ h = Chars("dr") \/ has(h, "withdrawal") THEN "debit"
    ELSE IF has(h, "credit") \/ h = Chars("cr") \/ has(h, "deposit") THEN "credit"
    ELSE IF has(h, "balance") \/ h = Chars("bal") THEN "balance"
    ELSE IF has(h, "check") /\ has(h, "number") THEN "checkNumber"
    ELSE IF has(h, "fee") \/ has(h, "charge") THEN "fees"
    ELSE "none"

\* the chain of tests on one header h, in lower case and trimmed: the role whose
\* branch is taken, "none" when no branch is
roleOf(h) ==
    IF has(h, "date") /\ ~has(h, "update") THEN "date"
    ELSE IF has(h, "transaction") /\ has(h, "number") THEN "transactionNumber"
    ELSE IF h = Chars("description") \/ has(h, "desc") THEN "description"
    ELSE IF h = Chars("memo") \/ has(h, "note") \/ has(h, "comment") THEN "memo"
    ELSE IF has(h, "debit") \/ h = Chars("dr") \/ has(h, "withdrawal") THEN "debit"
    ELSE IF has(h, "credit") \/ h = Chars("cr") \/ has(h, "deposit") THEN "credit"
    ELSE IF h = Chars("amount") \/ h = Chars("amt") THEN "amount"
    ELSE IF has(h, "balance") \/ h = Chars("bal") THEN "balance"
    ELSE IF has(h, "check") /\ has(h, "number") THEN "checkNumber"
    ELSE IF has(h, "fee") \/ has(h, "charge") THEN "fees"
    ELSE "none"

\* one round of headers.forEach: the header at 0-based idx
detectStep(map, role, idx) == IF role = "none" THEN map ELSE [map EXCEPT ![role] = idx]

\* headers.forEach from 1-based position k on
RECURSIVE detectFrom(_, _, _)
detectFrom(headers, k, map) ==
    IF k > Len(headers) THEN map
    ELSE detectFrom(headers, k + 1,
                    detectStep(map, roleOf(trim(toLowerCase(headers[k]))), k - 1))

detectBankColumns(headers) == detectFrom(headers, 1, NoColumns)

\* the two documented layouts
BasicLayout == <<"Date", "Description", "Debit", "Credit", "Balance">>

ReadmeLayout ==
    <<"Transaction Number", "Date", "Description", "Memo", "Amount Debit",
      "Amount Credit", "Balance", "Check Number", "Fees">>

OtherHeaders ==
    {"Amount", " Posting Date ", "Last Update", "Notes", "Deposit", "Service Charge",
     "Check Number", "DR", "Reference"}

\* the headers of layout at the positions kept, in their order
RECURSIVE pick(_, _, _)
pick(layout, kept, k) ==
    IF k > Len(layout) THEN <<>>
    ELSE (IF k \in kept THEN <<Chars(layout[k])>> ELSE <<>>) \o pick(layout, kept, k + 1)

MaxOther == 2

\* header rows: the documented layouts with any of their columns left out, and rows
\* of up to MaxOther other headers
HeaderRows ==
    { pick(BasicLayout, kept, 1) : kept \in SUBSET (1..Len(BasicLayout)) }
      \cup { pick(ReadmeLayout, kept, 1) : kept \in SUBSET (1..Len(ReadmeLayout)) }
      \cup UNION { { [k \in 1..n |-> Chars(row[k])] : row \in [1..n -> OtherHeaders] } :
                     n \in 1..MaxOther }

DetectBankColumns(headers) ==
    /\ returns("detectBankColumns", <<headers>>, detectBankColumns(headers))
    /\ sessionUntouched

-----------------------------------------------------------------------------
(* Rows of the general ledger file *)

GLRoles ==
    {"accountNumber", "accountDescription", "description", "glDescription", "type",
     "transactionType", "date", "refLedger", "refNumber", "beginBalance",
     "endingBalance", "balance", "debit", "credit", "adjustment", "debitMinusCredit",
     "amount", "netAmount", "checkNumber", "checkDate", "vendor", "vendorName",
     "voidAmount", "reconciledDate"}

NoGLColumns == [role \in GLRoles |-> -1]

is(h, words) == h \in { Chars(w) : w \in words }

\* the if / else-if chain of detectGLColumns on the trimmed lower-case header h,
\* map being the map so far
glRoleOf(h, map) ==
    IF (has(h, "account") /\ has(h, "number")) \/ is(h, {"account no", "acct no", "account #"})
    THEN "accountNumber"
    ELSE IF is(h, {"account description", "acct desc", "checking account", "account name"})
    THEN "accountDescription"
    ELSE IF is(h, {"description", "desc", "name"})
    THEN (IF map.description = -1 THEN "description" ELSE "glDescription")
    ELSE IF h = Chars("type") /\ map.type = -1 THEN "type"
    ELSE IF is(h, {"transaction type", "trans type", "txn type"}) THEN "transactionType"
    ELSE IF is(h, {"date", "trans date", "transaction date"}) THEN "date"
    ELSE IF is(h, {"ref ledger", "ledger"}) THEN "refLedger"
    ELSE IF is(h, {"ref number", "ref num", "reference", "ref #"}) THEN "refNumber"
    ELSE IF has(h, "begin") /\ has(h, "balance") THEN "beginBalance"
    ELSE IF (has(h, "end") /\ has(h, "balance")) \/ h = Chars("ending balance")
    THEN "endingBalance"
    ELSE IF is(h, {"balance", "bal"}) THEN "balance"
    ELSE IF is(h, {"debit", "dr", "debits"}) THEN "debit"
    ELSE IF is(h, {"credit", "cr", "credits"}) THEN "credit"
    ELSE IF is(h, {"adjustment", "adj", "adjustments"}) THEN "adjustment"
    ELSE IF has(h, "debit") /\ has(h, "credit") THEN "debitMinusCredit"
    ELSE IF is(h, {"amount", "amt"}) THEN "amount"
    ELSE IF is(h, {"net amount", "net amt"}) THEN "netAmount"
    ELSE IF is(h, {"check #", "check number", "chk #", "check num"}) THEN "checkNumber"
    ELSE IF is(h, {"check date", "chk date"}) THEN "checkDate"
    ELSE IF is(h, {"vendor", "vendor code", "vend"}) THEN "vendor"
    ELSE IF is(h, {"vendor name", "payee", "pay to"}) THEN "vendorName"
    ELSE IF is(h, {"void amount", "void amt"}) THEN "voidAmount"
    ELSE IF is(h, {"reconciled date", "recon date"}) THEN "reconciledDate"
    ELSE "none"

\* headers.forEach from 1-based position k on
RECURSIVE detectGLFrom(_, _, _)
detectGLFrom(headers, k, map) ==
    IF k > Len(headers) THEN map
    ELSE detectGLFrom(headers, k + 1,
                      detectStep(map, glRoleOf(trim(toLowerCase(headers[k])), map), k - 1))

detectGLColumns(headers) == detectGLFrom(headers, 1, NoGLColumns)

\* row[idx] || fallback: the cell, or the fallback when the index is -1 or past the
\* end of the row or the cell is empty
cellOr(row, idx, fallback) ==
    IF (idx + 1) \in DOMAIN row /\ row[idx + 1] # <<>> THEN row[idx + 1] ELSE fallback

\* the row holds more than one cell that is not blank
severalCells(row) == Cardinality({k \in DOMAIN row : trim(row[k]) # <<>>}) > 1

\* the three tests of the header search on row.join('|').toLowerCase()
looksLikeGLHeader(rowStr) ==
    \/ has(rowStr, "account")
         /\ (has(rowStr, "number") \/ has(rowStr, "no") \/ has(rowStr, "description"))
    \/ has(rowStr, "check")
         /\ (has(rowStr, "vendor") \/ has(rowStr, "amount") \/ has(rowStr, "payee"))
    \/ (has(rowStr, "debit") \/ has(rowStr, "credit"))
         /\ (has(rowStr, "date") \/ has(rowStr, "description"))

\* the 0-based index of the header row among the first 20 rows, -1 when none is found
RECURSIVE findGLHeader(_, _)
findGLHeader(rows, i) ==
    IF i >= Min(Len(rows), 20) THEN -1
    ELSE IF Len(rows[i + 1]) >= 3 /\ severalCells(rows[i + 1])
            /\ looksLikeGLHeader(toLowerCase(join(rows[i + 1], <<"|">>)))
    THEN i
    ELSE findGLHeader(rows, i + 1)

\* the entry of a check register row (its date is left out)
checkRegisterEntry(row, map) ==
    LET checkNum == cellOr(row, map.checkNumber, <<>>)
        amount == parseAmount(cellOr(row, map.amount, cellOr(row, map.netAmount, <<"0">>)))
    IN  IF checkNum # <<>> /\ amount.mantissa # 0
        THEN << [accountNumber |-> trim(checkNum),
                 description |-> trim(cellOr(row, map.vendorName, <<>>)),
                 type |-> Chars("Check"), beginBalance |-> Number(0, 0),
                 endingBalance |-> Number(0, 0), debit |-> Number(0, 0),
                 credit |-> amount, amount |-> amount] >>
        ELSE <<>>

\* the entry of a row of the standard format (its date and the reference numbers
\* read from the description are left out)
standardEntry(row, map) ==
    LET accountNumber == cellOr(row, map.accountNumber, <<>>)
        acctStr == trim(toLowerCase(accountNumber))
        transType == trim(cellOr(row, map.transactionType, cellOr(row, map.type, <<>>)))
        debit == parseAmount(cellOr(row, map.debit, <<"0">>))
        credit == parseAmount(cellOr(row, map.credit, <<"0">>))
        amount == IF debit.mantissa > 0 THEN debit ELSE credit
    IN  IF \/ trim(accountNumber) = <<>>
           \/ has(acctStr, "total") \/ has(acctStr, "report")
           \/ toLowerCase(transType) \in {Chars("opening balance"), Chars("expenditure")}
           \/ amount.mantissa = 0
        THEN <<>>
        ELSE << [accountNumber |-> trim(accountNumber),
                 description |-> trim(cellOr(row, map.glDescription,
                                             cellOr(row, map.description, <<>>))),
                 type |-> transType,
                 beginBalance |-> parseAmount(cellOr(row, map.beginBalance, <<"0">>)),
                 endingBalance |-> parseAmount(cellOr(row, map.endingBalance,
                                                      cellOr(row, map.balance, <<"0">>))),
                 debit |-> debit, credit |-> credit, amount |-> amount] >>

\* the body of the loop over the data rows
glRowEntries(row, map) ==
    IF row = <<>> \/ \A k \in DOMAIN row : trim(row[k]) = <<>> THEN <<>>
    ELSE IF map.checkNumber >= 0 /\ map.vendorName >= 0 THEN checkRegisterEntry(row, map)
    ELSE standardEntry(row, map)

RECURSIVE glEntriesFrom(_, _, _)
glEntriesFrom(rows, k, map) ==
    IF k > Len(rows) THEN <<>>
    ELSE glRowEntries(rows[k], map) \o glEntriesFrom(rows, k + 1, map)

smartParseGLData(rows) ==
    IF findGLHeader(rows, 0) = -1 THEN <<>>
    ELSE glEntriesFrom(rows, findGLHeader(rows, 0) + 2,
                       detectGLColumns([k \in DOMAIN rows[findGLHeader(rows, 0) + 1] |->
                                          trim(rows[findGLHeader(rows, 0) + 1][k])]))

\* the documented layout, and a layout with debit and credit columns
ReadmeGLLayout ==
    <<"Account Number", "Description", "Type", "Begin Balance", "Ending Balance",
      "ADJUSTMENT">>

DebitCreditLayout == <<"Account Number", "Description", "Type", "Debit", "Credit">>

cells(texts) == [k \in DOMAIN texts |-> Chars(texts[k])]

\* data rows of the documented layout: adjustments above and below zero, none, no
\* account number, a totals row
ReadmeGLRows ==
    { <<"1001", "Cash", "Asset", "100.00", "150.00", "50.00">>,
      <<"2001", "Payable", "Liability", "80.00", "55.00", "-25.00">>,
      <<"3001", "Equity", "Equity", "10.00", "10.00", "0">>,
      <<"", "Memo", "", "", "", "12.00">>,
      <<"Report Totals", "", "", "190.00", "215.00", "25.00">> }

DebitCreditRows ==
    { <<"1001", "Cash", "Asset", "50.00", "">>,
      <<"2001", "Payable", "Liability", "", "25.00">>,
      <<"4001", "Supplies", "Expenditure", "25.00", "">> }

\* data rows per file
MaxDataRows == 2

dataRows(rowSet) ==
    UNION { [1..n -> { cells(r) : r \in rowSet }] : n \in 0..MaxDataRows }

\* files: the header row, after a title row or not, and the data rows
filesOf(layout, rowSet) ==
    { <<cells(layout)>> \o rows : rows \in dataRows(rowSet) }
      \cup { <<cells(<<"General Ledger", "", "">>), cells(layout)>> \o rows :
               rows \in dataRows(rowSet) }

GLFiles == filesOf(ReadmeGLLayout, ReadmeGLRows) \cup filesOf(DebitCreditLayout, DebitCreditRows)

SmartParseGLData(rows) ==
    /\ returns("smartParseGLData", <<rows>>, smartParseGLData(rows))
    /\ sessionUntouched

-----------------------------------------------------------------------------
(* Rows of the bank file *)

\* Math.abs, a - b and a > 0 on numbers
absOf(number) == [number EXCEPT !.mantissa = Abs(@)]

minus(a, b) ==
    Number(a.mantissa * pow10(Max(a.scale, b.scale) - a.scale)
             - b.mantissa * pow10(Max(a.scale, b.scale) - b.scale),
           Max(a.scale, b.scale))

positive(number) == number.mantissa > 0

Zero == Number(0, 0)

\* the amount fields of a bank transaction; hasIsDebit is false when the object is
\* built without an isDebit property
BankAmounts(amountCredit, amountDebit, amount, hasIsDebit, isDebit) ==
    [amountCredit |-> amountCredit, amountDebit |-> amountDebit, amount |-> amount,
     hasIsDebit |-> hasIsDebit, isDebit |-> isDebit]

\* the net amount of a row with headers: credits above zero, debits below
netAmount(row, columnMap, credit, debit) ==
    IF positive(credit) /\ positive(debit) THEN minus(credit, debit)
    ELSE IF positive(credit) THEN credit
    ELSE IF positive(debit) THEN minus(Zero, debit)
    ELSE IF columnMap.amount >= 0 THEN parseAmount(cellOr(row, columnMap.amount, <<"0">>))
    ELSE Zero

\* the body of the loop of smartParseBankData over the data rows
headerRowTransactions(row, columnMap) ==
    LET dateValue == cellOr(row, columnMap.date, <<>>)
        credit == absOf(parseAmount(cellOr(row, columnMap.credit, <<"0">>)))
        debit == absOf(parseAmount(cellOr(row, columnMap.debit, <<"0">>)))
        amount == netAmount(row, columnMap, credit, debit)
    IN  IF \/ row = <<>> \/ \A k \in DOMAIN row : trim(row[k]) = <<>>
           \/ dateValue = <<>> \/ ~isValidDate(dateValue)
           \/ amount.mantissa = 0
        THEN <<>>
        ELSE << BankAmounts(credit, debit, absOf(amount), TRUE, amount.mantissa < 0) >>

\* /^(\d{4})(\d{2})(\d{2})/ matches the timestamp
datedTimestamp(timestamp) ==
    Len(timestamp) >= 8 /\ \A k \in 1..8 : timestamp[k] \in DigitChars

\* the body of the loop of parseHeaderlessBankFormat; a Date object counts as true
\* whatever its value
headerlessRowTransactions(row) ==
    LET firstCell == trim(cellOr(row, 0, <<>>))
        parts == splitOn(firstCell, "*", <<>>)
        amount == parseAmount(parts[2])
        dateValue == cellOr(row, 1, cellOr(row, 0, <<>>))
        debit == parseAmount(cellOr(row, 4, <<"0">>))
        credit == parseAmount(cellOr(row, 5, <<"0">>))
        either == IF positive(credit) THEN credit ELSE debit
    IN  IF firstCell = <<>> \/ Head(firstCell) = "," THEN <<>>
        ELSE IF Len(parts) >= 4
        THEN (IF (datedTimestamp(parts[1]) \/ cellOr(row, 1, <<>>) # <<>>)
                  /\ amount.mantissa # 0
              THEN << BankAmounts(IF positive(amount) THEN amount ELSE Zero,
                                  IF amount.mantissa < 0 THEN absOf(amount) ELSE Zero,
                                  absOf(amount), TRUE, amount.mantissa < 0) >>
              ELSE <<>>)
        ELSE IF isValidDate(dateValue) /\ either.mantissa # 0
        THEN << BankAmounts(credit, debit, absOf(either), TRUE, positive(debit)) >>
        ELSE <<>>

\* amounts.reduce((a, b) => Math.abs(a.value) > Math.abs(b.value) ? a : b)
RECURSIVE largestOf(_, _)
largestOf(a, rest) ==
    IF rest = <<>> THEN a
    ELSE largestOf(IF positive(minus(absOf(a), absOf(Head(rest)))) THEN a ELSE Head(rest),
                   Tail(rest))

\* the values of the cells that parseAmount reads as other than zero
RECURSIVE amountsOf(_)
amountsOf(row) ==
    IF row = <<>> THEN <<>>
    ELSE (IF parseAmount(Head(row)).mantissa # 0 THEN << parseAmount(Head(row)) >> ELSE <<>>)
           \o amountsOf(Tail(row))

\* the body of the loop of parseDataOnlyBankFormat (the description is left out)
dataOnlyRowTransactions(row) ==
    IF \/ Len(row) < 3
       \/ ~\E i \in 1..Min(Len(row), 5) : isValidDate(row[i])
       \/ amountsOf(row) = <<>>
    THEN <<>>
    ELSE LET mainAmount == largestOf(Head(amountsOf(row)), Tail(amountsOf(row)))
         IN  << BankAmounts(IF positive(mainAmount) THEN mainAmount ELSE Zero,
                            IF mainAmount.mantissa < 0 THEN absOf(mainAmount) ELSE Zero,
                            absOf(mainAmount), TRUE, mainAmount.mantissa < 0) >>

\* the transactions of rows from 1-based position k on, each row read by one of
\* the three loop bodies
RECURSIVE transactionsFrom(_, _, _, _)
transactionsFrom(rows, k, format, columnMap) ==
    IF k > Len(rows) THEN <<>>
    ELSE (CASE format = "header" -> headerRowTransactions(rows[k], columnMap)
            [] format = "headerless" -> headerlessRowTransactions(rows[k])
            [] OTHER -> dataOnlyRowTransactions(rows[k]))
           \o transactionsFrom(rows, k + 1, format, columnMap)

\* a row of labels in front of the data: at most one cell that is not blank, and a
\* first cell that is blank or names the account, the date range, a report or a
\* statement
metadataRow(row) ==
    /\ ~severalCells(row)
    /\ \/ trim(cellOr(row, 0, <<>>)) = <<>>
       \/ \E word \in {"account", "date range", "report", "statement"} :
             has(trim(toLowerCase(cellOr(row, 0, <<>>))), word)

\* the number of leading metadata rows among the first 10 rows
RECURSIVE metadataRows(_, _)
metadataRows(rows, i) ==
    IF i < Min(Len(rows), 10) /\ metadataRow(rows[i + 1]) THEN metadataRows(rows, i + 1)
    ELSE i

\* /^\d{14}\[/ matches the first cell of the first row
timestamped(rows) ==
    /\ rows # <<>>
    /\ Len(cellOr(rows[1], 0, <<>>)) >= 15
    /\ \A k \in 1..14 : rows[1][1][k] \in DigitChars
    /\ rows[1][1][15] = "["

\* the 0-based index of the header row among the first 20 rows, -1 when none is found
RECURSIVE findBankHeader(_, _)
findBankHeader(rows, i) ==
    IF i >= Min(Len(rows), 20) THEN -1
    ELSE IF /\ Len(rows[i + 1]) >= 3 /\ severalCells(rows[i + 1])
            /\ has(toLowerCase(join(rows[i + 1], <<"|">>)), "date")
            /\ \E word \in {"amount", "debit", "credit"} :
                  has(toLowerCase(join(rows[i + 1], <<"|">>)), word)
    THEN i
    ELSE findBankHeader(rows, i + 1)

\* smartParseBankData on the rows left after the metadata rows
parseCleanedRows(cleanedRows) ==
    IF timestamped(cleanedRows)
    THEN transactionsFrom(cleanedRows, 1, "headerless", NoColumns)
    ELSE IF findBankHeader(cleanedRows, 0) = -1
    THEN transactionsFrom(cleanedRows, 1, "dataOnly", NoColumns)
    ELSE transactionsFrom(cleanedRows, findBankHeader(cleanedRows, 0) + 2, "header",
             detectBankColumns([k \in DOMAIN cleanedRows[findBankHeader(cleanedRows, 0) + 1] |->
                                  trim(cleanedRows[findBankHeader(cleanedRows, 0) + 1][k])]))

smartParseBankData(rows) ==
    parseCleanedRows(SubSeq(rows, metadataRows(rows, 0) + 1, Len(rows)))

\* the transaction parseServerSideFile makes of an item of the server's parser;
\* an absent field and 0 give the same result under ||
serverBankTransaction(item) ==
    BankAmounts(IF item.amountCredit.mantissa # 0 THEN item.amountCredit
                ELSE IF positive(item.amount) THEN item.amount ELSE Zero,
                IF item.amountDebit.mantissa # 0 THEN item.amountDebit
                ELSE IF item.amount.mantissa < 0 THEN absOf(item.amount) ELSE Zero,
                IF item.amountCredit.mantissa # 0 THEN item.amountCredit ELSE item.amount,
                FALSE, FALSE)

\* the items of the OFX parser: TRNAMT above or below zero, split into credit and
\* debit, the amount made positive
OFXItem(trnamt) ==
    [amount |-> absOf(trnamt),
     amountCredit |-> IF positive(trnamt) THEN trnamt ELSE Zero,
     amountDebit |-> IF positive(trnamt) THEN Zero ELSE absOf(trnamt)]

\* the items of the statement text parser: an amount above zero and nothing else
PDFItem(amount) == [amount |-> amount, amountCredit |-> Zero, amountDebit |-> Zero]

ServerItems ==
    { OFXItem(Number(m, 2)) : m \in {10000, -5000, 0} }
      \cup { PDFItem(Number(m, 2)) : m \in {10000, 2550} }

\* bank files with headers: debit and credit columns, or one amount column
DebitCreditBankRows ==
    { <<"1/5/2024", "Deposit", "", "100.00", "500.00">>,
      <<"1/6/2024", "Check 1001", "50.00", "", "450.00">>,
      <<"1/7/2024", "Adjusted fee", "5.00", "20.00", "465.00">>,
      <<"1/8/2024", "Withdrawal", "-30.00", "", "435.00">>,
      <<"Total", "", "85.00", "120.00", "">> }

AmountLayout == <<"Date", "Description", "Amount">>

AmountBankRows ==
    { <<"1/5/2024", "Deposit", "100.00">>,
      <<"1/6/2024", "Check 1001", "-50.00">>,
      <<"1/7/2024", "Nothing", "0.00">> }

\* rows of the export without headers, and rows of data only
TimestampRows ==
    { <<"20251205000000[-5:EST]*-6270.42*1*18969*Check Withdrawal", "12/5/2025",
        "Check Withdrawal", "">>,
      <<"20251206000000[-5:EST]*150.00*1**Deposit", "12/6/2025", "Deposit", "">>,
      <<"x", "12/7/2025", "Transfer", "", "-40.00", "">>,
      <<"x", "12/8/2025", "Transfer", "", "", "75.00">> }

DataOnlyRows ==
    { <<"Deposit", "100.00", "1/5/2024">>,
      <<"Check 1001", "(50.00)", "1/6/2024">>,
      <<"Memo", "", "">> }

BankFiles ==
    filesOf(BasicLayout, DebitCreditBankRows) \cup filesOf(AmountLayout, AmountBankRows)
      \cup { rows \in dataRows(TimestampRows) : timestamped(rows) }
      \cup dataRows(DataOnlyRows)

SmartParseBankData(rows) ==
    /\ returns("smartParseBankData", <<rows>>, smartParseBankData(rows))
    /\ sessionUntouched

ParseServerSideFile(data) ==
    /\ returns("parseServerSideFile", <<data>>,
               [k \in DOMAIN data |-> serverBankTransaction(data[k])])
    /\ sessionUntouched

-----------------------------------------------------------------------------
(* Helper calls *)

NextHelpers ==
    \/ \E sourceAmount \in SourceAmounts : \E delta \in AmountDeltas :
          CallAmountScore(sourceAmount, sourceAmount + delta)
    \/ \E sourceAmount \in SubsetSources : \E targets \in SubsetTargets :
          CallFindSubsetMatches(sourceAmount, targets)
    \/ \E value \in AmountStrings : ParseAmount(value)
    \/ \E text \in NumberTexts : ParseTextNumber(text)
    \/ \E value \in AmountStrings \cup NumberTexts : ServerParseAmount(value)
    \/ \E value \in CellValues : \E host \in Hosts : ParseExcelDate(value, host)
    \/ \E text \in DateTexts : \E host \in Hosts : DateRoundTrip(Chars(text), host)
    \/ \E rows \in GLFiles : SmartParseGLData(rows)
    \/ \E rows \in BankFiles : SmartParseBankData(rows)
    \/ \E data \in UNION { [1..n -> ServerItems] : n \in 1..MaxDataRows } :
          ParseServerSideFile(data)
    \/ \E headers \in HeaderRows : DetectBankColumns(headers)

SpecHelpers == Init /\ [][NextHelpers]_vars

-----------------------------------------------------------------------------
(* Smart match suggestions among many candidates *)

RentText == Chars("PO 77 rent")

\* a bank row of $500.25, and the two bank rows of $150.00 and $350.25
SplitSourceTx == BankTransaction("s1", Day15, RentText, 50025, <<>>)

PartTxs ==
    << BankTransaction("s2", Day15, Chars("Deposit"), 15000, <<>>),
       BankTransaction("s3", Day15, Chars("Transfer"), 35025, <<>>) >>

SmartBankInputs == { <<SplitSourceTx>>, PartTxs }

\* GL rows of $150.00 and $350.25, a row of $500.25, one of $500.24 with the text and
\* the date of the bank row, and five rows of $500.00 with its text
PartEntries ==
    << GLEntry("p1", Chars("2001"), Chars("Deposit"), NoDate, 15000, <<>>),
       GLEntry("p2", Chars("2002"), Chars("Transfer"), NoDate, 35025, <<>>) >>

WholeEntry == GLEntry("p3", Chars("2003"), Chars("Payment"), NoDate, 50025, <<>>)

CloseEntry == GLEntry("p4", Chars("2004"), RentText, Day15, 50024, <<>>)

NearEntries ==
    [k \in 1..5 |-> GLEntry("n" \o ToString(k), Chars("3000"), RentText, NoDate, 50000, <<>>)]

SmartGLInputs ==
    { PartEntries, <<WholeEntry>>, PartEntries \o <<CloseEntry>>,
      PartEntries \o NearEntries, NearEntries \o <<CloseEntry>> }

NextSmart ==
    \/ \E data \in SmartBankInputs : LoadBank(data)
    \/ \E data \in SmartGLInputs : LoadGL(data)
    \/ PerformReconciliation
    \/ \E sourceType \in SourceTypes, sourceIdx \in 0..1 :
           ShowManualMatch(sourceType, sourceIdx)
    \/ GenerateSmartMatchSuggestions
    \/ FireSmartMatchTimer
    \/ \E suggestionIndex \in 0..Len(smartMatchSuggestions) :
           DenySmartMatch(suggestionIndex)

SpecSmart == Init /\ [][NextSmart]_vars

-----------------------------------------------------------------------------
(* The learning store over many events *)

\* a bank row of $100.00 and the GL rows it can be paired with: the one the earlier
\* acceptances paired it with and one described "Constructor"
LearningBankInputs ==
    { << BankTransaction("b2", Day15, <<"F", "e", "e">>, 10000, <<"4", "4", "1", "2">>) >> }

LearningGLInputs ==
    { << GLEntry("g1", <<"4", "4", "1", "2">>, <<"f", "e", "e">>, NoDate, 10000, <<>>) >>,
      << GLEntry("g3", <<"4", "4", "1", "2">>,
                 <<"C", "o", "n", "s", "t", "r", "u", "c", "t", "o", "r">>,
                 NoDate, 10000, <<>>) >> }

\* the store before the first event and the store after LogCap acceptances of one
\* suggestion, the state in which the next event reaches the cap of the log
InitLearning ==
    /\ Constructed
    /\ localStorage \in {NoLearningData, PriorLearning}

NextLearning ==
    \/ \E data \in LearningBankInputs : LoadBank(data)
    \/ \E data \in LearningGLInputs : LoadGL(data)
    \/ PerformReconciliation
    \/ \E sourceType \in SourceTypes : ShowManualMatch(sourceType, 0)
    \/ CloseManualMatchModal
    \/ GenerateSmartMatchSuggestions
    \/ FireSmartMatchTimer
    \/ \E suggestionIndex \in 0..Len(smartMatchSuggestions) : AcceptSmartMatch(suggestionIndex)
    \/ \E suggestionIndex \in 0..Len(smartMatchSuggestions) : DenySmartMatch(suggestionIndex)
    \/ \E confirmed \in BOOLEAN : UnmatchTransaction(0, confirmed)

SpecLearning == InitLearning /\ [][NextLearning]_vars

-----------------------------------------------------------------------------
(* Reconciliations saved and loaded again *)

\* a bank row of $300.00 for the GL rows of $100.00 and $200.00
HistoryBankInputs == { << BankTransaction("b1", Day15, <<"T", "a", "x">>, 30000, <<>>) >> }

NextHistory ==
    \/ \E data \in HistoryBankInputs : LoadBank(data)
    \/ \E data \in GLInputs : LoadGL(data)
    \/ PerformReconciliation
    \/ \E sourceType \in SourceTypes : ShowManualMatch(sourceType, 0)
    \/ \E targetIdx \in 0..(domCandidates.rendered - 1) : SelectManualMatch(targetIdx)
    \/ ConfirmMultiMatch
    \/ GenerateSmartMatchSuggestions
    \/ FireSmartMatchTimer
    \/ \E suggestionIndex \in 0..Len(smartMatchSuggestions) : AcceptSmartMatch(suggestionIndex)
    \/ SaveReconciliation
    \/ LoadReconciliationFromHistory
    \/ \E matchIdx \in 0..Len(matchedTransactions) :
          \E confirmed \in BOOLEAN : UnmatchTransaction(matchIdx, confirmed)

SpecHistory == Init /\ [][NextHistory]_vars

-----------------------------------------------------------------------------
(* Properties *)

occurrences(list, x) == Cardinality({k \in DOMAIN list : list[k] = x})

\* the bank side and the GL side of the three lists
bankRefs ==
    [k \in DOMAIN matchedTransactions |-> matchedTransactions[k].bankTransaction]
      \o unmatchedBank

glRefs ==
    [k \in DOMAIN matchedTransactions |-> matchedTransactions[k].glEntry] \o unmatchedGL

PartitionOfInputs ==
    /\ \A k \in DOMAIN bankData : occurrences(bankRefs, bankData[k]) = 1
    /\ \A k \in DOMAIN bankRefs : bankRefs[k] \in Range(bankData)
    /\ \A k \in DOMAIN glData : occurrences(glRefs, glData[k]) = 1
    /\ \A k \in DOMAIN glRefs : glRefs[k] \in Range(glData)

originalsOf(entity) ==
    IF entity.hasCombinedItems THEN entity.combinedItems
    ELSE IF entity.kind \in {"bank", "gl"} THEN <<entity>>
    ELSE <<>>

matchRecords(match) == originalsOf(match.bankTransaction) \o originalsOf(match.glEntry)

\* C2: no original record appears in more than one MatchResult (members of
\* combinedItems counted), and none is in a MatchResult and in an unmatched list at
\* the same time.
C2_NoRecordTwice ==
    /\ \A i, j \in DOMAIN matchedTransactions :
          i < j => Range(matchRecords(matchedTransactions[i]))
                     \cap Range(matchRecords(matchedTransactions[j])) = {}
    /\ \A i \in DOMAIN matchedTransactions :
          Range(matchRecords(matchedTransactions[i]))
            \cap (Range(unmatchedBank) \cup Range(unmatchedGL)) = {}

\* C3: a confirmed unmatchTransaction removes the MatchResult and appends to
\* unmatchedBank and unmatchedGL exactly the original records the match had
\* consumed (the members of combinedItems one by one), never a synthetic entity.
C3_UnmatchRestoresConsumedOriginals ==
    [][\A matchIdx \in 0..(Len(matchedTransactions) - 1) :
          (/\ UnmatchTransaction(matchIdx, TRUE)
           /\ matchedTransactions[matchIdx + 1].bankTransaction # Undefined
           /\ matchedTransactions[matchIdx + 1].glEntry # Undefined)
          => /\ matchedTransactions' = splice(matchedTransactions, matchIdx)
             /\ unmatchedBank' = unmatchedBank
                  \o originalsOf(matchedTransactions[matchIdx + 1].bankTransaction)
             /\ unmatchedGL' = unmatchedGL
                  \o originalsOf(matchedTransactions[matchIdx + 1].glEntry)]_vars

C5_AcceptedEventComesWithMatch ==
    [][localStorage'.totalAccepted > localStorage.totalAccepted
       => /\ Len(matchedTransactions') = Len(matchedTransactions) + 1
          /\ matchedTransactions'[Len(matchedTransactions')].isManual]_vars

\* table[k1][k2][field], 0 when the table holds no such record
counterOf(table, k1, k2, field) ==
    IF k1 \in DOMAIN table /\ k2 \in DOMAIN table[k1] THEN table[k1][k2][field] ELSE 0

\* the three pattern counters of a suggestion's keys, read from store data
patternCounters(data, suggestion, field) ==
    << counterOf(data.descToAccount, normalizeForLearning(suggestion.bankTx.description),
                 trim(suggestion.glEntry.accountNumber), field),
       counterOf(data.amountToAccount, amountBucket(suggestion.bankTx.amount),
                 trim(suggestion.glEntry.accountNumber), field),
       counterOf(data.descToDesc, normalizeForLearning(suggestion.bankTx.description),
                 normalizeForLearning(suggestion.glEntry.description), field) >>

\* what denySmartMatch(suggestionIndex) must do to an existing suggestion
denyEffect(suggestionIndex) ==
    LET suggestion == smartMatchSuggestions[suggestionIndex + 1]
        before == patternCounters(localStorage, suggestion, "denied")
        after == patternCounters(localStorage', suggestion, "denied")
        log == localStorage.feedbackLog
    IN  /\ after = [k \in 1..3 |-> before[k] + 1]
        /\ patternCounters(localStorage', suggestion, "accepted")
             = patternCounters(localStorage, suggestion, "accepted")
        /\ localStorage'.totalDenied = localStorage.totalDenied + 1
        /\ localStorage'.totalAccepted = localStorage.totalAccepted
        /\ Len(localStorage'.feedbackLog) = Len(log) + 1
        /\ SubSeq(localStorage'.feedbackLog, 1, Len(log)) = log
        /\ localStorage'.feedbackLog[Len(log) + 1].action = "denied"
        /\ localStorage'.feedbackLog[Len(log) + 1].bankDesc = suggestion.bankTx.description
        /\ smartMatchSuggestions' =
              [k \in 1..(Len(smartMatchSuggestions) - 1) |->
                  IF k <= suggestionIndex THEN smartMatchSuggestions[k]
                  ELSE smartMatchSuggestions[k + 1]]
        /\ UNCHANGED <<matchedTransactions, unmatchedBank, unmatchedGL, manualMatchSource>>

eventRecorded ==
    localStorage'.totalAccepted + localStorage'.totalDenied
      > localStorage.totalAccepted + localStorage.totalDenied

\* C7: the stored feedbackLog never holds more than 200 entries; an event appends
\* its entry as the newest one, and at 200 entries the oldest one is dropped.
C7_LogKeepsMostRecent ==
    [][/\ Len(localStorage'.feedbackLog) <= LogCap
       /\ eventRecorded =>
            LET log == localStorage.feedbackLog
                entry == localStorage'.feedbackLog[Len(localStorage'.feedbackLog)]
            IN  /\ entry.timestamp = now'
                /\ localStorage'.feedbackLog =
                      IF Len(log) < LogCap THEN Append(log, entry)
                      ELSE Tail(log) \o <<entry>>]_vars

\* an event of this session is the newest entry of a full log, and the oldest entry
\* of the earlier session is gone
C7_OldestDropped ==
    /\ Len(localStorage.feedbackLog) = LogCap
    /\ localStorage.feedbackLog[LogCap].timestamp > 0
    /\ localStorage.feedbackLog[1] = PriorEntry(2)

\* C8: the learning store changes only in a step of acceptSmartMatch or
\* denySmartMatch; every other handler (performReconciliation, the manual, multi
\* and custom matches, reset, unmatchTransaction) leaves it as it was.
C8_OnlyFeedbackChangesLearning ==
    [][localStorage' # localStorage
       => \E suggestionIndex \in 0..(Len(smartMatchSuggestions) - 1) :
             AcceptSmartMatch(suggestionIndex) \/ DenySmartMatch(suggestionIndex)]_vars

\* an accepted smart match has been taken out of matchedTransactions again, and
\* the store still counts the acceptance
C8_AcceptedThenUnmatched ==
    /\ localStorage.totalAccepted = 1
    /\ matchedTransactions = <<>>
    /\ smartMatchSuggestions = <<>>
    /\ unmatchedBank # <<>>
    /\ unmatchedGL # <<>>
    /\ lastRun.ran
    /\ outcome = "ok"

\* a call the handlers' contract excludes: no source item, an empty selection, or
\* a suggestion index that does not exist
misuse ==
    \/ FireSmartMatchTimer /\ manualMatchSource = NoSource
    \/ \E suggestionIndex \in 0..Len(smartMatchSuggestions) :
          /\ AcceptSmartMatch(suggestionIndex)
          /\ \/ manualMatchSource = NoSource
             \/ suggestionIndex = Len(smartMatchSuggestions)
    \/ /\ ConfirmManualMatch
       /\ \/ manualMatchSource = NoSource
          \/ selectedMatches = {} /\ domCandidates.checked = {}
    \/ /\ ConfirmMultiMatch
       /\ manualMatchSource = NoSource \/ selectedMatches = {}
    \/ \E customData \in CustomInputs :
          CreateCustomMatch(customData) /\ manualMatchSource = NoSource

\* C9: a call with no source item, an empty selection or a missing suggestion index
\* ends with a message to the user (an alert) and changes none of the three lists.
C9_MisuseIsRejectedWithMessage ==
    [][misuse => (outcome' = "alert" /\ listsUnchanged)]_vars

\* C10: unmatchTransaction with an index past the end of matchedTransactions
\* throws to its caller and changes none of the three lists.
C10_UnmatchOfMissingIndexFails ==
    [][\A confirmed \in BOOLEAN :
          UnmatchTransaction(Len(matchedTransactions), confirmed)
          => (outcome' \in TypeErrors /\ listsUnchanged)]_vars

\* unmatchTransaction has thrown on a missing index while MatchResults exist
C10_MissingIndexThrew ==
    /\ outcome = TypeErrorReading("isMultiMatch")
    /\ matchedTransactions # <<>>

\* the amounts are equal within settings.amountTolerance
amountsEqual(bankTx, glEntry) ==
    Abs(bankTx.amount - glEntry.amount) <= settings.amountTolerance

\* the digits of the check number are a non-empty substring of the account's digits
checkDigitsInAccount(bankTx, glEntry) ==
    /\ stripNonDigits(bankTx.checkNumber) # <<>>
    /\ includes(stripNonDigits(glEntry.accountNumber), stripNonDigits(bankTx.checkNumber))

CheckTypes == {"Exact Amount + Check #", "Check #"}

\* C11: after performReconciliation, a pair with equal amounts whose check digits
\* are in the account digits is matched with matchScore >= 0.8 and a matchType that
\* contains 'Check #', and a matchType contains 'Check #' only for such check digits.
C11_CheckNumberMatchIsLabelled ==
    [][PerformReconciliation =>
         /\ \A k \in DOMAIN matchedTransactions' :
               LET match == matchedTransactions'[k]
                   found == checkDigitsInAccount(match.bankTransaction, match.glEntry)
               IN  /\ (found /\ amountsEqual(match.bankTransaction, match.glEntry))
                        => (match.matchScore >= 8000 /\ match.matchType \in CheckTypes)
                   /\ match.matchType \in CheckTypes => found
         /\ \A i \in DOMAIN unmatchedBank' : \A j \in DOMAIN unmatchedGL' :
               ~(/\ amountsEqual(unmatchedBank'[i], unmatchedGL'[j])
                 /\ checkDigitsInAccount(unmatchedBank'[i], unmatchedGL'[j]))]_vars

\* C12: after performReconciliation under any dateRange and amountTolerance, no
\* bank transaction is left unmatched while an unclaimed GL entry has its amount.
C12_EqualAmountIsMatched ==
    [][PerformReconciliation =>
         \A i \in DOMAIN unmatchedBank' : \A j \in DOMAIN unmatchedGL' :
            ~amountsEqual(unmatchedBank'[i], unmatchedGL'[j])]_vars

\* the tiers of the amount score for a difference diff from a source amount
amountTier(sourceAmount, diff) ==
    IF diff <= 1 THEN 10000
    ELSE IF diff * 100 <= sourceAmount THEN 8500
    ELSE IF diff * 20 <= sourceAmount THEN 6000
    ELSE IF diff * 10 <= sourceAmount THEN 3000
    ELSE 0

sumsToSource(sourceAmount, targets, idx) ==
    LET sum == IF Len(idx) = 2
               THEN Abs(targets[idx[1] + 1].amount) + Abs(targets[idx[2] + 1].amount)
               ELSE Abs(targets[idx[1] + 1].amount) + Abs(targets[idx[2] + 1].amount)
                      + Abs(targets[idx[3] + 1].amount)
    IN  Abs(sum - sourceAmount) * 100 <= sourceAmount

parenthesisedForms(body) ==
    { Parenthesised(body), ParenthesisedCurrency(body), CurrencyParenthesised(body),
      ParenthesisedMinus(body) }

tailDigits(body) ==
    Len(body) - 1 - Max(lastIndexOf(body, ","), lastIndexOf(body, "."))

\* all digits of the amount, with the decimal point scale digits from the right
digitsScaled(body, scale) == Number(digitsValue(stripNonDigits(body)), scale)

\* C17: when '.' and ',' both occur the later one is the decimal separator and the
\* other is dropped; when only commas occur, a two-digit tail makes the comma the
\* decimal separator and otherwise all commas are thousands separators.
C17_SeparatorsDisambiguated ==
    call.fn = "parseAmount" =>
       \A body \in AmountBodies :
          call.args[1] = body =>
             /\ (countOf(body, ",") > 0 /\ countOf(body, ".") > 0)
                  => call.value = digitsScaled(body, tailDigits(body))
             /\ (countOf(body, ",") > 0 /\ countOf(body, ".") = 0)
                  => call.value = digitsScaled(body, IF tailDigits(body) = 2 THEN 2 ELSE 0)


\* every 'hundred' of the words follows a ones or tens word, so that the subtotal
\* it multiplies is not empty
hundredsFollowNumbers(words) ==
    \A k \in DOMAIN words :
        words[k] = "hundred" =>
            k > 1 /\ words[k - 1] \in DOMAIN ONES \cup DOMAIN TENS

\* the number the words say, composed from left to right
RECURSIVE said(_, _, _)
said(words, subtotal, total) ==
    IF words = <<>> THEN total + subtotal
    ELSE IF Head(words) \in DOMAIN ONES
    THEN said(Tail(words), subtotal + ONES[Head(words)], total)
    ELSE IF Head(words) \in DOMAIN TENS
    THEN said(Tail(words), subtotal + TENS[Head(words)], total)
    ELSE IF Head(words) = "hundred" THEN said(Tail(words), subtotal * 100, total)
    ELSE said(Tail(words), 0,
              total + (IF subtotal = 0 THEN 1 ELSE subtotal) * SCALES(Head(words)))

\* C18: parseTextNumber composes number words from left to right (ones, teens and
\* tens add to the subtotal, 'hundred' multiplies it, the larger scale words multiply
\* it, 1 if empty, and commit it), so "one thousand two hundred" gives 1200; a
\* leading 'negative', 'minus' or '-' negates the result; and the server's
\* parseAmount gives a text without number words its full numeric value, as
\* 1234.56 for "1,234.56".
C18_WordsComposedAndNumbersParsed ==
    /\ call.fn = "parseTextNumber" =>
         /\ call.args[1] = Chars("one thousand two hundred") =>
                call.value = Found(Number(1200, 0))
         /\ \A words \in WordLists, prefix \in NegativePrefixes :
                /\ hundredsFollowNumbers(words)
                /\ call.args[1] = prefix \o joinWords(words)
                => call.value = Found(signed(prefix # <<>>, Number(said(words, 0, 0), 0)))
    /\ call.fn = "serverParseAmount" =>
         \A body \in AmountBodies :
             call.args[1] = body =>
                 call.value = unsignedFloat(removeAll(body, {","}))

\* the pairs of 0-based positions of targetItems whose amounts sum to within 1% of
\* sourceAmount
pairsWithinOnePercent(sourceAmount, targetItems) ==
    { <<i - 1, j - 1>> : i, j \in DOMAIN targetItems } \cap
    { p \in (0..Len(targetItems)) \X (0..Len(targetItems)) :
        /\ p[1] < p[2]
        /\ p[2] < Len(targetItems)
        /\ Abs(Abs(targetItems[p[1] + 1].amount) + Abs(targetItems[p[2] + 1].amount)
                 - sourceAmount) * 100 <= sourceAmount }

someSingleScores85(singles) == \E k \in DOMAIN singles : singles[k].score >= 8500

\* what C15 says of the list offered, given the single candidates that were scored
splitsOffered(offered, singles, sourceAmount, targetItems) ==
    IF someSingleScores85(singles)
    THEN \A k \in DOMAIN offered : ~offered[k].isSplit
    ELSE \A pair \in pairsWithinOnePercent(sourceAmount, targetItems) :
             \E k \in DOMAIN offered :
                 /\ offered[k].isSplit
                 /\ offered[k].targetIndices = pair
                 /\ offered[k].score <= 8000

smartMatchRan == FireSmartMatchTimer /\ outcome' = "ok"

\* C15: when smart-match generation finds no single candidate scoring 0.85 or more
\* and two unmatched items of the opposite side sum to within 1% of the source
\* amount, the list offered to the user (smartMatchSuggestions) holds a split
\* suggestion for that pair with a score of at most 0.80; no split suggestion is
\* produced when some single candidate scores 0.85 or more.
C15_SplitPairIsOffered ==
    [][smartMatchRan =>
         splitsOffered(smartMatchSuggestions',
                       singleSuggestions(manualMatchSource,
                           At(sourceList(manualMatchSource.type), manualMatchSource.idx),
                           targetList(manualMatchSource.type), 1),
                       Abs(At(sourceList(manualMatchSource.type),
                              manualMatchSource.idx).amount),
                       targetList(manualMatchSource.type))]_vars

\* the number a cell holds: its number, or the number its string reads as
cellNumber(value) ==
    IF value.type = "number" THEN value.number
    ELSE IF value.type = "string" /\ ~isValidDate(value.string)
    THEN signedFloat(trimLeft(value.string))
    ELSE NaN

inSerialRange(number) == ~lessThan(number, 30000) /\ lessThan(number, 60000)

\* C19: parseExcelDate returns a date exactly for the numeric values v with
\* 30000 <= v < 60000, given as numbers or as numeric strings; the date is
\* 1899-12-30 plus v days, so 45000 gives a date in 2023; every other numeric
\* value gives null.
C19_SerialRangeGivesDate ==
    call.fn = "parseExcelDate" /\ ~cellNumber(call.args[1]).nan =>
        /\ call.value.kind = "date" <=> inSerialRange(cellNumber(call.args[1]))
        /\ call.value.kind = "date" =>
               daysFromCivil(call.value.year, call.value.month, call.value.day)
                 = daysFromCivil(1899, 12, 30) + floorOf(cellNumber(call.args[1]))
        /\ cellNumber(call.args[1]) = Number(45000, 0) => call.value.year = 2023

\* the role each documented header stands for
documentedRole ==
    [h \in Range(BasicLayout) \cup Range(ReadmeLayout) |->
        CASE h = "Transaction Number" -> "transactionNumber"
          [] h = "Date" -> "date"
          [] h = "Description" -> "description"
          [] h = "Memo" -> "memo"
          [] h \in {"Debit", "Amount Debit"} -> "debit"
          [] h \in {"Credit", "Amount Credit"} -> "credit"
          [] h = "Balance" -> "balance"
          [] h = "Check Number" -> "checkNumber"
          [] h = "Fees" -> "fees"]

\* the 0-based position in headers of the documented header of role, -1 without one
documentedIndex(headers, layout, role) ==
    IF \E k \in DOMAIN headers, h \in Range(layout) :
           headers[k] = Chars(h) /\ documentedRole[h] = role
    THEN (CHOOSE k \in DOMAIN headers :
              \E h \in Range(layout) : headers[k] = Chars(h) /\ documentedRole[h] = role) - 1
    ELSE -1

\* map is the column map the claim gives the headers, a part of layout
documentedMap(headers, layout, map) ==
    \A kept \in SUBSET (1..Len(layout)) :
        headers = pick(layout, kept, 1) =>
            \A role \in BankRoles : map[role] = documentedIndex(headers, layout, role)

\* C20: detectBankColumns maps every header of the documented bank layouts to its
\* own position: Date, Description, Debit, Credit, Balance get the indices 0..4,
\* each of the nine columns of the README layout gets its index, every role without
\* a matching header stays -1, and no header is assigned to two roles.
C20_DocumentedHeadersMapped ==
    call.fn = "detectBankColumns" =>
        /\ documentedMap(call.args[1], BasicLayout, call.value)
        /\ documentedMap(call.args[1], ReadmeLayout, call.value)
        /\ \A r1, r2 \in BankRoles :
               r1 # r2 /\ call.value[r1] # -1 => call.value[r1] # call.value[r2]

C20_ReadmeLayoutDetected ==
    /\ call.fn = "detectBankColumns"
    /\ call.args[1] = pick(ReadmeLayout, 1..Len(ReadmeLayout), 1)
    /\ call.value["transactionNumber"] = 0
    /\ call.value["fees"] = 8
    /\ call.value["amount"] = -1

candidatesOf(k, claimed) ==
    { j \in 0..(Len(glData) - 1) :
        j \notin claimed /\ calculateMatchScore(bankData[k], glData[j + 1]) > 5000 }

\* the earliest of the candidates with the highest score
bestOf(k, candidates) ==
    CHOOSE j \in candidates :
        \A i \in candidates :
            \/ calculateMatchScore(bankData[k], glData[i + 1])
                 < calculateMatchScore(bankData[k], glData[j + 1])
            \/ calculateMatchScore(bankData[k], glData[i + 1])
                 = calculateMatchScore(bankData[k], glData[j + 1]) /\ j <= i

\* the claims of C25 for the bank transactions from 1-based position k on, as pairs
\* of 0-based positions, given the GL entries claimed before
RECURSIVE greedyClaims(_, _)
greedyClaims(k, claimed) ==
    IF k > Len(bankData) THEN <<>>
    ELSE IF candidatesOf(k, claimed) = {} THEN greedyClaims(k + 1, claimed)
    ELSE << <<k - 1, bestOf(k, candidatesOf(k, claimed))>> >>
           \o greedyClaims(k + 1, claimed \cup {bestOf(k, candidatesOf(k, claimed))})

\* the three lists are the ones the claims give
listsFollow(claims, matched, ub, ug) ==
    /\ Len(matched) = Len(claims)
    /\ \A n \in DOMAIN claims :
           /\ matched[n].bankTransaction = bankData[claims[n][1] + 1]
           /\ matched[n].glEntry = glData[claims[n][2] + 1]
           /\ matched[n].matchScore
                = calculateMatchScore(bankData[claims[n][1] + 1], glData[claims[n][2] + 1])
    /\ ub = collectUnmatched(bankData, {claims[n][1] : n \in DOMAIN claims}, 1)
    /\ ug = collectUnmatched(glData, {claims[n][2] : n \in DOMAIN claims}, 1)

\* C25: performReconciliation takes the bank transactions in input order and claims
\* for each the unclaimed GL entry with the highest calculateMatchScore among those
\* scoring above 0.5, the earliest in glData order on ties; a bank transaction stays
\* unmatched exactly when no unclaimed GL entry scores above 0.5, and a claim made
\* for an earlier bank transaction is never revised for a later one.
C25_GreedyFirstSeenClaims ==
    [][PerformReconciliation =>
         listsFollow(greedyClaims(1, {}), matchedTransactions', unmatchedBank',
                     unmatchedGL')]_vars

\* the first bank row took the first of two equally scored GL rows, which the
\* second bank row would have scored higher on
C25_EarlierClaimKept ==
    /\ bankData = <<PlainTx, CheckTx>>
    /\ glData = <<Acct4412, Acct1001>>
    /\ Len(matchedTransactions) = 2
    /\ matchedTransactions[1].bankTransaction = PlainTx
    /\ matchedTransactions[1].glEntry = Acct4412
    /\ matchedTransactions[2].glEntry = Acct1001

\* list holds at most five suggestions in non-increasing score order, and every
\* entry that is no split carries the weighted sum of its signals, 0.40 or more
wellFormedSuggestions(list) ==
    /\ Len(list) <= 5
    /\ \A k \in DOMAIN list : k > 1 => list[k - 1].score >= list[k].score
    /\ \A k \in DOMAIN list :
           ~list[k].isSplit =>
               /\ list[k].score
                    = (40 * list[k].scores.amount + 20 * list[k].scores.text
                       + 15 * list[k].scores.date + 15 * list[k].scores.ref) \div 100
                      + list[k].scores.learningBias
               /\ list[k].score >= 4000

\* no single candidate of candidates that list leaves out scores higher than an
\* entry of list
noBetterLeftOut(candidates, list) ==
    \A c \in DOMAIN candidates :
        (~candidates[c].isSplit /\ candidates[c] \notin Range(list)) =>
            \A k \in DOMAIN list : candidates[c].score <= list[k].score

\* the single candidates the timer callback scores for the open source
scoredSingles ==
    singleSuggestions(manualMatchSource,
                      At(sourceList(manualMatchSource.type), manualMatchSource.idx),
                      targetList(manualMatchSource.type), 1)

\* the step is a deny that found its suggestion
someDeny == localStorage'.totalDenied > localStorage.totalDenied

\* the list after a deny is the list before it without one entry
oneEntryRemoved(before, after) ==
    \E k \in DOMAIN before : after = splice(before, k - 1)

requestedSource == Head(smartRequests)

\* the item a source designates in the current lists
designated(source) == At(sourceList(source.type), source.idx)

\* C28: the suggestion computation that generateSmartMatchSuggestions defers by a
\* timer runs to completion whatever is interleaved between scheduling and firing:
\* when it fires, manualMatchSource is non-null and designates an existing
\* unmatched item, and the suggestions stored are for the source item that was
\* selected when the generation was requested.
C28_DeferredGenerationCompletes ==
    [][FireSmartMatchTimer /\ requestedSource # NoSource
         /\ ~IsUndefined(designated(requestedSource))
       => /\ manualMatchSource # NoSource
          /\ ~IsUndefined(designated(manualMatchSource))
          /\ outcome' = "ok"
          /\ smartMatchSuggestions'
               = smartSuggestions(requestedSource, designated(requestedSource),
                                  targetList(requestedSource.type))]_vars

\* the record a suggestion was scored on as its source
suggestionSource(source, s) == IF source.type = "bank" THEN s.bankTx ELSE s.glEntry

\* the records at a suggestion's target index or indices in the current lists
targetsNow(source, s) ==
    IF s.isSplit
    THEN [i \in DOMAIN s.targetIndices |-> At(targetList(source.type), s.targetIndices[i])]
    ELSE << At(targetList(source.type), s.targetIndex) >>

\* the record or records a suggestion was scored on as its target
suggestionTargets(source, s) ==
    IF s.isSplit THEN s.targetItems
    ELSE << IF source.type = "bank" THEN s.glEntry ELSE s.bankTx >>

\* a suggestion designates, in the current lists, the records it was scored on
stillValid(s) ==
    /\ manualMatchSource # NoSource
    /\ designated(manualMatchSource) = suggestionSource(manualMatchSource, s)
    /\ targetsNow(manualMatchSource, s) = suggestionTargets(manualMatchSource, s)

\* the step is an accept that appended a MatchResult
someAccept ==
    /\ localStorage'.totalAccepted > localStorage.totalAccepted
    /\ Len(matchedTransactions') = Len(matchedTransactions) + 1

\* a MatchResult pairs the records suggestion s was scored on
pairsScored(result, s) ==
    IF ~s.isSplit THEN result.bankTransaction = s.bankTx /\ result.glEntry = s.glEntry
    ELSE IF manualMatchSource.type = "bank"
    THEN result.bankTransaction = s.bankTx /\ result.glEntry.combinedItems = s.targetItems
    ELSE result.glEntry = s.glEntry /\ result.bankTransaction.combinedItems = s.targetItems

\* C29: in every reachable state each entry of smartMatchSuggestions is still valid:
\* manualMatchSource is non-null, the record at manualMatchSource.idx of its
\* unmatched list is the suggestion's source record and the records at
\* targetIndex / targetIndices of the opposite list are its target records; hence
\* the MatchResult that acceptSmartMatch appends pairs the records the suggestion
\* was scored on, which the feedback event names.
C29_SuggestionsStayValid ==
    /\ [](\A k \in DOMAIN smartMatchSuggestions : stillValid(smartMatchSuggestions[k]))
    /\ [][someAccept
            => \E k \in DOMAIN smartMatchSuggestions :
                  /\ localStorage'.feedbackLog[Len(localStorage'.feedbackLog)]
                       = feedbackEntry(smartMatchSuggestions[k], "accepted", now + 1)
                  /\ pairsScored(matchedTransactions'[Len(matchedTransactions')],
                                 smartMatchSuggestions[k])]_vars

PatternTables == {"descToAccount", "amountToAccount", "descToDesc"}

\* the (key, key) pairs under which a pattern table holds counters
counterKeys(table) ==
    UNION { { <<k1, k2>> : k2 \in DOMAIN table[k1] } : k1 \in DOMAIN table }

RECURSIVE sumCounts(_, _, _)
sumCounts(table, keys, field) ==
    IF keys = {} THEN 0
    ELSE LET p == CHOOSE q \in keys : TRUE
         IN  table[p[1]][p[2]][field] + sumCounts(table, keys \ {p}, field)

\* the number of events recorded so far
eventsRecorded(store) == store.totalAccepted + store.totalDenied

\* in every pattern table the counters add up to the totals, and the log holds
\* every event up to its cap
countersAgree(store) ==
    /\ \A t \in PatternTables :
          /\ sumCounts(store[t], counterKeys(store[t]), "accepted") = store.totalAccepted
          /\ sumCounts(store[t], counterKeys(store[t]), "denied") = store.totalDenied
    /\ Len(store.feedbackLog) = Min(eventsRecorded(store), LogCap)

\* no counter of the store before is lower or missing in the store after
noCountDecreases(before, after) ==
    /\ after.totalAccepted >= before.totalAccepted
    /\ after.totalDenied >= before.totalDenied
    /\ \A t \in PatternTables : \A p \in counterKeys(before[t]) :
          /\ p \in counterKeys(after[t])
          /\ after[t][p[1]][p[2]].accepted >= before[t][p[1]][p[2]].accepted
          /\ after[t][p[1]][p[2]].denied >= before[t][p[1]][p[2]].denied

\* the step is acceptSmartMatch or denySmartMatch on an existing suggestion
feedbackStep ==
    \E suggestionIndex \in 0..(Len(smartMatchSuggestions) - 1) :
        AcceptSmartMatch(suggestionIndex) \/ DenySmartMatch(suggestionIndex)

\* C30: from an empty learning store, after n accept / deny events of one
\* application instance totalAccepted + totalDenied = n, in each of descToAccount,
\* amountToAccount and descToDesc the accepted counts add up to totalAccepted and
\* the denied counts to totalDenied, no count ever decreases, and feedbackLog has
\* min(n, 200) entries.
C30_CountersFollowEvents ==
    /\ []countersAgree(localStorage)
    /\ [][/\ eventsRecorded(localStorage')
               = eventsRecorded(localStorage) + (IF feedbackStep THEN 1 ELSE 0)
          /\ noCountDecreases(localStorage, localStorage')]_vars

\* the month, the day and the digits of the year a date string of the accepted
\* patterns is written with
dateFields(dateStr) ==
    LET slash == splitOn(trim(dateStr), "/", <<>>)
        dash  == splitOn(trim(dateStr), "-", <<>>)
    IN  IF Len(slash) = 3
        THEN [month |-> digitsValue(slash[1]), day |-> digitsValue(slash[2]),
              yearDigits |-> slash[3]]
        ELSE IF digitParts(dash, {4}, {2}, {2})
        THEN [month |-> digitsValue(dash[2]), day |-> digitsValue(dash[3]),
              yearDigits |-> dash[1]]
        ELSE [month |-> digitsValue(dash[1]), day |-> digitsValue(dash[2]),
              yearDigits |-> dash[3]]

daysInMonth(year, month) ==
    IF month = 12 THEN 31
    ELSE daysFromCivil(year, month + 1, 1) - daysFromCivil(year, month, 1)

\* year is the year the digits stand for: the year written, or for two digits a
\* year that ends in them
yearAgrees(yearDigits, year) ==
    IF Len(yearDigits) = 2 THEN year % 100 = digitsValue(yearDigits)
    ELSE year = digitsValue(yearDigits)

\* the fields name a day of the calendar
denotesDay(fields) ==
    /\ fields.month \in 1..12
    /\ fields.day \in 1..daysInMonth(IF Len(fields.yearDigits) = 2
                                     THEN 1900 + digitsValue(fields.yearDigits)
                                     ELSE digitsValue(fields.yearDigits), fields.month)

\* C23: for every string that isValidDate accepts (M/D/YY, M/D/YYYY, YYYY-MM-DD,
\* MM-DD-YYYY), parseDate, then formatDate, then parseDate again gives the calendar
\* day, month and year that the string denotes, for two-digit and for four-digit
\* years.
C23_DateRoundTrips ==
    call.fn = "formatDate" /\ isValidDate(call.args[1])
                           /\ denotesDay(dateFields(call.args[1])) =>
        /\ call.value.again.kind = "date"
        /\ call.value.again.month = dateFields(call.args[1]).month
        /\ call.value.again.day = dateFields(call.args[1]).day
        /\ yearAgrees(dateFields(call.args[1]).yearDigits, call.value.again.year)

\* one side of the match is the combined entity of a multi-match or of a split
combinedMatch(m) == m.bankTransaction.hasCombinedItems \/ m.glEntry.hasCombinedItems

\* the originals of match m are back at the end of their unmatched lists
originalsRestored(m) ==
    IF m.bankTransaction.hasCombinedItems
    THEN /\ unmatchedBank' = unmatchedBank \o m.bankTransaction.combinedItems
         /\ unmatchedGL' = Append(unmatchedGL, m.glEntry)
    ELSE /\ unmatchedBank' = Append(unmatchedBank, m.bankTransaction)
         /\ unmatchedGL' = unmatchedGL \o m.glEntry.combinedItems

\* no combined entity is in a list of unmatched records
noCombinedUnmatched(ub, ug) ==
    /\ \A k \in DOMAIN ub : ~ub[k].hasCombinedItems
    /\ \A k \in DOMAIN ug : ~ug[k].hasCombinedItems

\* C27: saving the reconciliation and loading it back keeps a multi-match or split
\* match reversible: unmatchTransaction on a match of two records of which one is
\* a combined entity, also after saveReconciliation and
\* loadReconciliationFromHistory, puts each original of combinedItems back into its
\* unmatched list and never puts the combined entity into unmatchedBank or
\* unmatchedGL.
C27_LoadedMultiMatchReversible ==
    [][\A matchIdx \in 0..(Len(matchedTransactions) - 1) :
          UnmatchTransaction(matchIdx, TRUE)
            /\ combinedMatch(matchedTransactions[matchIdx + 1])
            /\ ~IsUndefined(matchedTransactions[matchIdx + 1].bankTransaction)
            /\ ~IsUndefined(matchedTransactions[matchIdx + 1].glEntry)
          => /\ originalsRestored(matchedTransactions[matchIdx + 1])
             /\ noCombinedUnmatched(unmatchedBank', unmatchedGL')]_vars

\* the file has the header row of the documented GL layout
documentedGLFile(rows) ==
    \E k \in DOMAIN rows : rows[k] = cells(ReadmeGLLayout)

\* the rows below the header row of the documented layout
documentedDataRows(rows) ==
    SubSeq(rows, (CHOOSE k \in DOMAIN rows : rows[k] = cells(ReadmeGLLayout)) + 1, Len(rows))

\* the adjustments (column 6) of the rows with an account number (column 1) and an
\* adjustment other than zero, in the order of the rows
RECURSIVE adjustmentsOf(_)
adjustmentsOf(rows) ==
    IF rows = <<>> THEN <<>>
    ELSE (IF trim(Head(rows)[1]) # <<>> /\ parseAmount(Head(rows)[6]).mantissa # 0
          THEN << parseAmount(Head(rows)[6]) >> ELSE <<>>)
           \o adjustmentsOf(Tail(rows))

\* C21: for a GL file in the documented layout (Account Number, Description, Type,
\* Begin Balance, Ending Balance, ADJUSTMENT) smartParseGLData gives one GLEntry
\* for every data row with a non-empty account number and an ADJUSTMENT other than
\* zero, and the amount of the entry is the ADJUSTMENT value.
C21_AdjustmentRowsBecomeEntries ==
    call.fn = "smartParseGLData" /\ documentedGLFile(call.args[1]) =>
        [k \in DOMAIN call.value |-> call.value[k].amount]
          = adjustmentsOf(documentedDataRows(call.args[1]))

\* the larger of two numbers
larger(a, b) == IF positive(minus(a, b)) THEN a ELSE b

\* amount is the larger of amountCredit and amountDebit, none of the three is
\* below zero, and isDebit is there to give the direction
amountsNormalised(tx) ==
    /\ tx.amount = larger(tx.amountCredit, tx.amountDebit)
    /\ tx.amount.mantissa >= 0
    /\ tx.amountCredit.mantissa >= 0
    /\ tx.amountDebit.mantissa >= 0
    /\ tx.hasIsDebit

\* C22: every BankTransaction of every bank path (smartParseBankData with headers,
\* parseHeaderlessBankFormat, parseDataOnlyBankFormat, and the mapping of the items
\* the server parsed from PDF, OFX or QIF files) has amount = max(amountCredit,
\* amountDebit), amount >= 0, amountCredit >= 0 and amountDebit >= 0, the direction
\* being given by isDebit only.
C22_BankAmountsNormalised ==
    call.fn \in {"smartParseBankData", "parseServerSideFile"} =>
        \A k \in DOMAIN call.value : amountsNormalised(call.value[k])
=============================================================================
